---------------------------- MODULE Spec2Model ----------------------------
(***************************************************************************)
(* Model of rhasspy-hermes: the Hermes message contract (topic templates,  *)
(* matching and extraction), HermesClient's subscription bookkeeping and   *)
(* HermesClient's inbound dispatch loop.                                   *)
(*                                                                         *)
(* Strings that can appear inside an MQTT topic are modelled by their      *)
(* split on "/": the string "a/b" is <<"a", "b">>, "kitchen" is            *)
(* <<"kitchen">> and the empty string is <<"">>.  String concatenation     *)
(* around a "/" is then concatenation of sequences.  Python's None is the  *)
(* empty sequence, which is the split of no string.                        *)
(***************************************************************************)
EXTENDS Integers, Sequences, FiniteSets, Bags, TLC

None == << >>

Str(s) == <<s>>

\* Python truthiness of an Optional[str]: None and "" are falsy.
Truthy(v) == v # None /\ v # Str("")

(***************************************************************************)
(* Regular expressions.  A TOPIC_PATTERN is written as its split on "/";   *)
(* the two capture groups the repository uses stand for themselves.        *)
(***************************************************************************)
G1 == "([^/]+)"

GRest == "(.+)"

NoMatch == [matched |-> FALSE, groups |-> << >>]

IsGroup(p) == p = G1 \/ p = GRest

\* Positions of the capture groups of a pattern, in order.
RECURSIVE GroupPositions(_, _)
GroupPositions(pattern, i) ==
    IF i > Len(pattern) THEN << >>
    ELSE IF IsGroup(pattern[i]) THEN <<i>> \o GroupPositions(pattern, i + 1)
    ELSE GroupPositions(pattern, i + 1)

\* re.match(pattern, topic) for an anchored pattern ^...$ .
ReMatch(pattern, topic) ==
    LET n == Len(pattern)
        rest == n > 0 /\ pattern[n] = GRest
        lenOk == IF rest THEN Len(topic) >= n ELSE Len(topic) = n
        segOk(i) == IF pattern[i] = G1 THEN topic[i] # ""
                    ELSE IF pattern[i] = GRest
                         THEN SubSeq(topic, i, Len(topic)) # Str("")
                         ELSE topic[i] = pattern[i]
        grp(i) == IF pattern[i] = GRest THEN SubSeq(topic, i, Len(topic))
                  ELSE Str(topic[i])
        pos == GroupPositions(pattern, 1)
    IN  IF lenOk /\ \A i \in 1..n : segOk(i)
        THEN [matched |-> TRUE, groups |-> [k \in 1..Len(pos) |-> grp(pos[k])]]
        ELSE NoMatch

\* kwargs.get(key, default)
KwGet(kwargs, key, default) ==
    IF key \in DOMAIN kwargs THEN kwargs[key] ELSE default

(***************************************************************************)
(* Message types: TOPIC_PATTERN and topic(kwargs) of each class.         *)
(***************************************************************************)
AudioFrame_TOPIC_PATTERN == <<"hermes", "audioServer", G1, "audioFrame">>

AudioFrame_topic(kwargs) ==
    <<"hermes", "audioServer">> \o KwGet(kwargs, "site_id", Str("+"))
        \o <<"audioFrame">>

AudioPlayBytes_TOPIC_PATTERN == <<"hermes", "audioServer", G1, "playBytes", G1>>

AudioPlayBytes_topic(kwargs) ==
    <<"hermes", "audioServer">> \o KwGet(kwargs, "site_id", Str("+"))
        \o <<"playBytes">> \o KwGet(kwargs, "request_id", Str("#"))

AudioPlayFinished_TOPIC_PATTERN == <<"hermes", "audioServer", G1, "playFinished">>

AudioPlayFinished_topic(kwargs) ==
    <<"hermes", "audioServer">> \o KwGet(kwargs, "site_id", Str("+"))
        \o <<"playFinished">>

AudioSessionFrame_TOPIC_PATTERN ==
    <<"hermes", "audioServer", G1, G1, "audioSessionFrame">>

AudioSessionFrame_topic(kwargs) ==
    <<"hermes", "audioServer">> \o KwGet(kwargs, "site_id", Str("+"))
        \o KwGet(kwargs, "session_id", Str("+")) \o <<"audioSessionFrame">>

AudioSummary_TOPIC_PATTERN == <<"hermes", "audioServer", G1, "audioSummary">>

AudioSummary_topic(kwargs) ==
    <<"hermes", "audioServer">> \o KwGet(kwargs, "site_id", Str("+"))
        \o <<"audioSummary">>

AsrTrain_TOPIC_PATTERN == <<"rhasspy", "asr", G1, "train">>

AsrTrain_topic(kwargs) ==
    <<"rhasspy", "asr">> \o KwGet(kwargs, "site_id", Str("+")) \o <<"train">>

AsrTrainSuccess_TOPIC_PATTERN == <<"rhasspy", "asr", G1, "trainSuccess">>

AsrTrainSuccess_topic(kwargs) ==
    <<"rhasspy", "asr">> \o KwGet(kwargs, "site_id", Str("+"))
        \o <<"trainSuccess">>

AsrAudioCaptured_TOPIC_PATTERN == <<"rhasspy", "asr", G1, G1, "audioCaptured">>

\* session_id is read from the "site_id" keyword, as in the source.
AsrAudioCaptured_topic(kwargs) ==
    LET site_id == KwGet(kwargs, "site_id", Str("+"))
        session_id == KwGet(kwargs, "site_id", Str("+"))
    IN  <<"rhasspy", "asr">> \o site_id \o session_id \o <<"audioCaptured">>

NluIntent_TOPIC_PATTERN == <<"hermes", "intent", GRest>>

NluIntent_topic(kwargs) ==
    <<"hermes", "intent">> \o KwGet(kwargs, "intent_name", Str("#"))

NluTrain_TOPIC_PATTERN == <<"rhasspy", "nlu", G1, "train">>

NluTrain_topic(kwargs) ==
    <<"rhasspy", "nlu">> \o KwGet(kwargs, "site_id", Str("+")) \o <<"train">>

NluTrainSuccess_TOPIC_PATTERN == <<"rhasspy", "nlu", G1, "trainSuccess">>

NluTrainSuccess_topic(kwargs) ==
    <<"rhasspy", "nlu">> \o KwGet(kwargs, "site_id", Str("+"))
        \o <<"trainSuccess">>

HotwordDetected_TOPIC_PATTERN == <<"hermes", "hotword", G1, "detected">>

HotwordDetected_topic(kwargs) ==
    <<"hermes", "hotword">> \o KwGet(kwargs, "wakeword_id", Str("+"))
        \o <<"detected">>

HotwordExampleRecorded_TOPIC_PATTERN ==
    <<"rhasspy", "hotword", G1, "exampleRecorded", G1>>

HotwordExampleRecorded_topic(kwargs) ==
    <<"rhasspy", "hotword">> \o KwGet(kwargs, "site_id", Str("+"))
        \o <<"exampleRecorded">> \o KwGet(kwargs, "request_id", Str("#"))

IntentGraph_TOPIC_PATTERN == <<"rhasspy", "train", "intentGraph", G1>>

IntentGraph_topic(kwargs) ==
    <<"rhasspy", "train", "intentGraph">> \o KwGet(kwargs, "request_id", Str("#"))

NluQuery_topic(kwargs) == <<"hermes", "nlu", "query">>

TtsSay_topic(kwargs) == <<"hermes", "tts", "say">>

AsrToggleOn_topic(kwargs) == <<"hermes", "asr", "toggleOn">>

DialogueEndSession_topic(kwargs) ==
    <<"hermes", "dialogueManager", "endSession">>

\* The message types with a TOPIC_PATTERN.
TemplatedTypes ==
    {"AudioFrame", "AudioPlayBytes", "AudioPlayFinished", "AudioSessionFrame",
     "AudioSummary", "AsrTrain", "AsrTrainSuccess", "AsrAudioCaptured",
     "NluIntent", "NluTrain", "NluTrainSuccess", "HotwordDetected",
     "HotwordExampleRecorded", "IntentGraph"}

FixedTypes == {"NluQuery", "TtsSay", "AsrToggleOn", "DialogueEndSession"}

MessageTypes == TemplatedTypes \cup FixedTypes

TopicPattern(mt) ==
    CASE mt = "AudioFrame" -> AudioFrame_TOPIC_PATTERN
      [] mt = "AudioPlayBytes" -> AudioPlayBytes_TOPIC_PATTERN
      [] mt = "AudioPlayFinished" -> AudioPlayFinished_TOPIC_PATTERN
      [] mt = "AudioSessionFrame" -> AudioSessionFrame_TOPIC_PATTERN
      [] mt = "AudioSummary" -> AudioSummary_TOPIC_PATTERN
      [] mt = "AsrTrain" -> AsrTrain_TOPIC_PATTERN
      [] mt = "AsrTrainSuccess" -> AsrTrainSuccess_TOPIC_PATTERN
      [] mt = "AsrAudioCaptured" -> AsrAudioCaptured_TOPIC_PATTERN
      [] mt = "NluIntent" -> NluIntent_TOPIC_PATTERN
      [] mt = "NluTrain" -> NluTrain_TOPIC_PATTERN
      [] mt = "NluTrainSuccess" -> NluTrainSuccess_TOPIC_PATTERN
      [] mt = "HotwordDetected" -> HotwordDetected_TOPIC_PATTERN
      [] mt = "HotwordExampleRecorded" -> HotwordExampleRecorded_TOPIC_PATTERN
      [] mt = "IntentGraph" -> IntentGraph_TOPIC_PATTERN

\* cls.topic(kwargs).  AppNluQuery is a subclass of NluQuery that the
\* application defines: it inherits topic, is_topic and from_dict.
Topic(mt, kwargs) ==
    CASE mt = "AudioFrame" -> AudioFrame_topic(kwargs)
      [] mt = "AudioPlayBytes" -> AudioPlayBytes_topic(kwargs)
      [] mt = "AudioPlayFinished" -> AudioPlayFinished_topic(kwargs)
      [] mt = "AudioSessionFrame" -> AudioSessionFrame_topic(kwargs)
      [] mt = "AudioSummary" -> AudioSummary_topic(kwargs)
      [] mt = "AsrTrain" -> AsrTrain_topic(kwargs)
      [] mt = "AsrTrainSuccess" -> AsrTrainSuccess_topic(kwargs)
      [] mt = "AsrAudioCaptured" -> AsrAudioCaptured_topic(kwargs)
      [] mt = "NluIntent" -> NluIntent_topic(kwargs)
      [] mt = "NluTrain" -> NluTrain_topic(kwargs)
      [] mt = "NluTrainSuccess" -> NluTrainSuccess_topic(kwargs)
      [] mt = "HotwordDetected" -> HotwordDetected_topic(kwargs)
      [] mt = "HotwordExampleRecorded" -> HotwordExampleRecorded_topic(kwargs)
      [] mt = "IntentGraph" -> IntentGraph_topic(kwargs)
      [] mt = "NluQuery" -> NluQuery_topic(kwargs)
      [] mt = "AppNluQuery" -> NluQuery_topic(kwargs)
      [] mt = "TtsSay" -> TtsSay_topic(kwargs)
      [] mt = "AsrToggleOn" -> AsrToggleOn_topic(kwargs)
      [] mt = "DialogueEndSession" -> DialogueEndSession_topic(kwargs)

\* Mutant: the base class compares only the first level of the topic.
IsTopic_FirstLevel(mt, topic) ==
    IF mt \in TemplatedTypes
    THEN ReMatch(TopicPattern(mt), topic).matched
    ELSE topic # << >> /\ topic[1] = Topic(mt, << >>)[1]

\* cls.is_topic(topic): the base class compares with cls.topic(), the
\* templated classes match their TOPIC_PATTERN.
IsTopic(mt, topic) ==
    IF mt \in TemplatedTypes
    THEN ReMatch(TopicPattern(mt), topic).matched
    ELSE topic = Topic(mt, << >>)

IsBinaryPayload(mt) ==
    mt \in {"AudioFrame", "AudioPlayBytes", "AudioSessionFrame",
            "AsrAudioCaptured", "HotwordExampleRecorded", "IntentGraph"}

IsSiteInTopic(mt) ==
    mt \in {"AudioFrame", "AudioPlayBytes", "AudioPlayFinished",
            "AudioSessionFrame", "AudioSummary", "AsrTrain", "AsrTrainSuccess",
            "AsrAudioCaptured", "NluTrain", "NluTrainSuccess",
            "HotwordExampleRecorded"}

IsSessionInTopic(mt) == mt \in {"AudioSessionFrame", "AsrAudioCaptured"}

(***************************************************************************)
(* Extractors.  A result is [raised, value]: the overriding class methods  *)
(* assert that the pattern matched, the base class returns None from       *)
(* get_site_id and get_session_id.  The base class has no get_request_id,  *)
(* get_intent_name or get_wakeword_id: on a class that does not define     *)
(* the method the call raises AttributeError.                              *)
(***************************************************************************)
Returned(v) == [raised |-> FALSE, value |-> v]

Raised == [raised |-> TRUE, value |-> None]

\* match = re.match(PATTERN, topic); assert match; return match.group(k)
MatchGroup(mt, topic, k) ==
    LET m == ReMatch(TopicPattern(mt), topic)
    IN  IF m.matched THEN Returned(m.groups[k]) ELSE Raised

GetSiteId(mt, topic) ==
    IF IsSiteInTopic(mt) THEN MatchGroup(mt, topic, 1) ELSE Returned(None)

GetSessionId(mt, topic) ==
    IF IsSessionInTopic(mt) THEN MatchGroup(mt, topic, 2) ELSE Returned(None)

GetRequestId(mt, topic) ==
    IF mt \in {"AudioPlayBytes", "HotwordExampleRecorded"}
    THEN MatchGroup(mt, topic, 2) ELSE Raised

GetIntentName(mt, topic) ==
    IF mt = "NluIntent" THEN MatchGroup(mt, topic, 1) ELSE Raised

GetWakewordId(mt, topic) ==
    IF mt = "HotwordDetected" THEN MatchGroup(mt, topic, 1) ELSE Raised

(***************************************************************************)
(* State.                                                                  *)
(*   tp_*  : one use of the message contract's topic functions             *)
(*   site_ids              self.site_ids, fixed at construction            *)
(*   is_connected, pending_mqtt_topics, subscribed_types,                  *)
(*   subscribed_topics, all_mqtt_topics     the fields of the same names   *)
(*   sub_calls     bag of the topics passed to mqtt_client.subscribe since *)
(*                 the last connect event (since construction before it)   *)
(*   requested     every topic ever handed to subscribe_topics             *)
(*   reconnect_calls   number of mqtt_client.reconnect() calls             *)
(*   failed_topics     the topics left behind when mqtt_client.subscribe   *)
(*                 raised since the last connect event: the topic it       *)
(*                 raised for and the pending topics not yet reached       *)
(*   last_op       the last subscription operation: its name, the topics   *)
(*                 it was given (for a connect event, the topics pending   *)
(*                 or cached when it began) and those of them that had     *)
(*                 been handed to subscribe_topics before                  *)
(* mqtt_connected_event is only awaited by callers and is not modelled.    *)
(*   loop_set      self.loop is not None                                   *)
(*   in_queue      self.in_queue: made is FALSE while it is None           *)
(*   pre_queue     self.pre_queue                                          *)
(*   loop_calls    the in_queue.put_nowait callbacks handed to             *)
(*                 loop.call_soon_threadsafe and not yet run               *)
(*   net_pc, net_msg   the network thread inside mqtt_on_message           *)
(*   delivered     number of messages the transport has delivered          *)
(*   hm_pc         handle_messages_async: "off" before the call, "drain"   *)
(*                 in the pre-queue loop, "get" at await in_queue.get(),   *)
(*                 "blocking" at await publish_all(on_message_blocking),   *)
(*                 "done" after the main loop                              *)
(*   mqtt_message  the message the main loop took last                     *)
(*   cur           the on_message_blocking / on_message invocation for     *)
(*                 mqtt_message, with its arguments, if there is one       *)
(*   tasks         running handler generators (publish_all coroutines)     *)
(*   taken         one entry per message in_queue.get() returned, in       *)
(*                 order: its id, what kind of input it was, how often     *)
(*                 on_raw_message was called with it and which handlers    *)
(*                 were invoked for it                                     *)
(*   last_publish  the latest mqtt_client.publish call: the message and    *)
(*                 handler it came from and its number in that handler     *)
(*   exit_cause    why the main loop was left                              *)
(*   stop_requested    a None entry has been put on in_queue               *)
(*   pa_pc         one call of publish_all: "off" before it, "run" in its  *)
(*                 async for, "done" after it, "raised" when an exception  *)
(*                 left it                                                 *)
(*   pa_yielded    what the generator given to publish_all has yielded     *)
(*   publish_calls the calls of publish(message, topic_args), in order,    *)
(*                 each with how it ended                                  *)
(*   mqtt_published    the calls of mqtt_client.publish(topic, payload),   *)
(*                 in order, each with the publish call it came from       *)
(***************************************************************************)
VARIABLES tp_pc, tp_type, tp_kwargs, tp_topic, tp_out

VARIABLES site_ids, is_connected, pending_mqtt_topics, subscribed_types,
          subscribed_topics, all_mqtt_topics, sub_calls, requested,
          reconnect_calls, failed_topics, last_op

VARIABLES loop_set, in_queue, pre_queue, loop_calls, net_pc, net_msg,
          delivered, hm_pc, mqtt_message, cur, tasks, taken, last_publish,
          exit_cause, stop_requested

VARIABLES pa_pc, pa_yielded, publish_calls, mqtt_published

VARIABLES js_pc, js_type, js_instance, js_payload, js_out

VARIABLES ca_pc, ca_topics, ca_thread, ca_iter, nw_pc, nw_iter,
          subscribe_lock, writer

topic_vars == <<tp_pc, tp_type, tp_kwargs, tp_topic, tp_out>>

sub_vars == <<site_ids, is_connected, pending_mqtt_topics, subscribed_types,
              subscribed_topics, all_mqtt_topics, sub_calls, requested,
              reconnect_calls, failed_topics, last_op>>

disp_vars == <<loop_set, in_queue, pre_queue, loop_calls, net_pc, net_msg,
               delivered, hm_pc, mqtt_message, cur, tasks, taken,
               last_publish, exit_cause, stop_requested>>

pub_vars == <<pa_pc, pa_yielded, publish_calls, mqtt_published>>

json_vars == <<js_pc, js_type, js_instance, js_payload, js_out>>

race_vars == <<ca_pc, ca_topics, ca_thread, ca_iter, nw_pc, nw_iter,
               subscribe_lock, writer>>

vars == <<topic_vars, sub_vars, disp_vars, pub_vars, json_vars, race_vars>>

\* What the actions of one part leave alone.
not_topic_vars == <<sub_vars, disp_vars, pub_vars, json_vars, race_vars>>

not_sub_vars == <<topic_vars, disp_vars, pub_vars, json_vars, race_vars>>

not_disp_vars == <<topic_vars, sub_vars, pub_vars, json_vars, race_vars>>

not_pub_vars == <<topic_vars, sub_vars, disp_vars, json_vars, race_vars>>

not_json_vars == <<topic_vars, sub_vars, disp_vars, pub_vars, race_vars>>

(***************************************************************************)
(* JSON payloads.  A Python value is a record tagged py, a JSON value a    *)
(* record tagged js.  A JSON object is the sequence of its key/value pairs *)
(* in document order, the order in which json.loads fills the dict and in  *)
(* which from_dict walks it.  An instance is PyObj(cls, kw) with kw the    *)
(* value of each attribute.                                                *)
(***************************************************************************)
PyNone == [py |-> "None"]

PyStr(s) == [py |-> "str", s |-> s]

\* b is "True" or "False"
PyBool(b) == [py |-> "bool", s |-> b]

\* a member of DialogueActionType, by its name
PyEnum(member) == [py |-> "enum", s |-> member]

PyObj(cls, kw) == [py |-> "obj", cls |-> cls, kw |-> kw]

JNull == [js |-> "null"]

JStr(s) == [js |-> "string", s |-> s]

\* b is "true" or "false"
JBool(b) == [js |-> "bool", s |-> b]

JObj(pairs) == [js |-> "object", pairs |-> pairs]

Pair(key, value) == [k |-> key, v |-> value]

\* class DialogueActionType(str, Enum): the value of each member
EnumValue(member) ==
    CASE member = "ACTION" -> "action"
      [] member = "NOTIFICATION" -> "notification"

\* DialogueActionType(value)
EnumMember(value) ==
    CASE value = "action" -> "ACTION"
      [] value = "notification" -> "NOTIFICATION"

Field(name, type, required, default) ==
    [name |-> name, type |-> type, required |-> required, default |-> default]

\* The classes declared with @dataclass.  The classes of service.py are
\* declared with @attr.s.
IsDataclass(cls) ==
    cls \in {"HandleToggleOn", "NluQuery", "DialogueStartSession",
             "DialogueAction", "DialogueNotification"}

\* dataclasses.fields(cls), in declaration order
Fields(cls) ==
    CASE cls = "HandleToggleOn" ->
           <<Field("site_id", "str", FALSE, PyStr("default"))>>
      [] cls = "NluQuery" ->
           <<Field("input", "str", TRUE, PyNone),
             Field("site_id", "str", FALSE, PyStr("default")),
             Field("id", "optional", FALSE, PyNone),
             Field("intent_filter", "optional", FALSE, PyNone),
             Field("session_id", "optional", FALSE, PyNone),
             Field("wakeword_id", "optional", FALSE, PyNone),
             Field("lang", "optional", FALSE, PyNone)>>
      [] cls = "DialogueStartSession" ->
           <<Field("init", "union", TRUE, PyNone),
             Field("site_id", "str", FALSE, PyStr("default")),
             Field("custom_data", "optional", FALSE, PyNone),
             Field("lang", "optional", FALSE, PyNone)>>
      [] cls = "DialogueAction" ->
           <<Field("can_be_enqueued", "bool", TRUE, PyNone),
             Field("type", "enum", FALSE, PyEnum("ACTION")),
             Field("text", "optional", FALSE, PyNone),
             Field("intent_filter", "optional", FALSE, PyNone),
             Field("send_intent_not_recognized", "bool", FALSE,
                   PyBool("False"))>>
      [] cls = "DialogueNotification" ->
           <<Field("text", "str", TRUE, PyNone),
             Field("type", "enum", FALSE, PyEnum("NOTIFICATION"))>>
      [] OTHER -> << >>

FieldNames(cls) == {Fields(cls)[i].name : i \in DOMAIN Fields(cls)}

FieldOf(cls, name) ==
    Fields(cls)[CHOOSE i \in DOMAIN Fields(cls) : Fields(cls)[i].name = name]

\* The generated __init__ of a dataclass: given holds the keyword arguments,
\* every other field takes its declared default.
New(cls, given) ==
    PyObj(cls, [n \in FieldNames(cls) |->
                  IF n \in DOMAIN given THEN given[n]
                  ELSE FieldOf(cls, n).default])

\* LetterCase.CAMEL applied to a field name
CamelCase(name) ==
    CASE name = "site_id" -> "siteId"
      [] name = "session_id" -> "sessionId"
      [] name = "intent_filter" -> "intentFilter"
      [] name = "wakeword_id" -> "wakewordId"
      [] name = "custom_data" -> "customData"
      [] name = "can_be_enqueued" -> "canBeEnqueued"
      [] name = "send_intent_not_recognized" -> "sendIntentNotRecognized"
      [] OTHER -> name

\* to_dict followed by the JSON encoder: a dataclass instance becomes an
\* object keyed by the camel-case field names, an enum member its value.
RECURSIVE AsJson(_)
AsJson(v) ==
    CASE v.py = "None" -> JNull
      [] v.py = "str" -> JStr(v.s)
      [] v.py = "bool" -> JBool(IF v.s = "True" THEN "true" ELSE "false")
      [] v.py = "enum" -> JStr(EnumValue(v.s))
      [] v.py = "obj" ->
           JObj([i \in DOMAIN Fields(v.cls) |->
                   Pair(CamelCase(Fields(v.cls)[i].name),
                        AsJson(v.kw[Fields(v.cls)[i].name]))])

\* Message.payload of a JSON message type: self.to_json(ensure_ascii=False).
\* Only a dataclass instance is converted; any other object reaches
\* json.dumps as it is and json.dumps raises TypeError.  The JSON text is
\* modelled by the JSON value that json.loads reads back from it.
Payload(message) ==
    IF IsDataclass(message.cls) THEN Returned(AsJson(message)) ELSE Raised

\* decode_names.get(k, k): a wire key is renamed to the field whose
\* camel-case form it is, any other key stands for itself.
DecodeName(cls, key) ==
    IF \E n \in FieldNames(cls) : CamelCase(n) = key
    THEN CHOOSE n \in FieldNames(cls) : CamelCase(n) = key
    ELSE key

MaxOf(S) == CHOOSE i \in S : \A j \in S : j <= i

\* The value of one field, decoded by the declared type.  A value that is
\* already a Python object is kept as it is.
DecodeValue(type, v) ==
    IF "py" \in DOMAIN v THEN v
    ELSE CASE v.js = "null" -> PyNone
           [] v.js = "string" ->
                IF type = "enum" THEN PyEnum(EnumMember(v.s)) ELSE PyStr(v.s)
           [] v.js = "bool" -> PyBool(IF v.s = "true" THEN "True" ELSE "False")

\* DataClassJsonMixin.from_dict of a dataclass: of the pairs whose renamed
\* key is a field the last one gives the value, a missing field takes its
\* default, a missing field without default raises KeyError, keys that
\* name no field are not read.
DecodeDataclass(cls, pairs) ==
    LET at(n) == {i \in DOMAIN pairs : DecodeName(cls, pairs[i].k) = n}
        missing(n) == at(n) = {}
        val(n) == pairs[MaxOf(at(n))].v
    IN  IF ~IsDataclass(cls) THEN Raised
        ELSE IF \E n \in FieldNames(cls) :
                   missing(n) /\ FieldOf(cls, n).required
        THEN Raised
        ELSE Returned(PyObj(cls,
                 [n \in FieldNames(cls) |->
                    IF missing(n) THEN FieldOf(cls, n).default
                    ELSE DecodeValue(FieldOf(cls, n).type, val(n))]))

\* DialogueStartSession.from_dict: init is popped, decoded by its "type"
\* and put back before the dataclass is decoded.
DialogueStartSession_from_dict(pairs) ==
    LET at == {i \in DOMAIN pairs : pairs[i].k = "init"}
        init == pairs[MaxOf(at)].v
        typeAt == {i \in DOMAIN init.pairs : init.pairs[i].k = "type"}
        type == init.pairs[MaxOf(typeAt)].v
        decoded == IF type = JStr(EnumValue("NOTIFICATION"))
                   THEN DecodeDataclass("DialogueNotification", init.pairs)
                   ELSE DecodeDataclass("DialogueAction", init.pairs)
    IN  IF at = {} THEN Raised
        ELSE IF init.js # "object" THEN Raised
        ELSE IF typeAt = {} THEN Raised
        ELSE IF decoded.raised THEN Raised
        ELSE DecodeDataclass("DialogueStartSession",
                 Append(SelectSeq(pairs, LAMBDA p : p.k # "init"),
                        Pair("init", decoded.value)))

\* message_type.from_dict(json_payload)
FromDict(cls, json_payload) ==
    IF json_payload.js # "object" THEN Raised
    ELSE IF cls = "DialogueStartSession"
    THEN DialogueStartSession_from_dict(json_payload.pairs)
    ELSE DecodeDataclass(cls, json_payload.pairs)

\* Instances built from valid field values.  Of a ServiceGetStatus, which
\* attrs builds, only the attribute siteId is shown.
InstancesOf(cls) ==
    LET sites == {PyStr("default"), PyStr("satellite")}
        inits ==
            {New("DialogueNotification", [text |-> PyStr("Ready")])}
            \cup {New("DialogueAction", [can_be_enqueued |-> b, text |-> t]) :
                    b \in {PyBool("True"), PyBool("False")},
                    t \in {PyNone, PyStr("Ready")}}
    IN  CASE cls = "HandleToggleOn" ->
               {New(cls, << >>)} \cup {New(cls, [site_id |-> s]) : s \in sites}
          [] cls = "NluQuery" ->
               {New(cls, [input |-> PyStr("turn on the light"),
                          site_id |-> s, session_id |-> z]) :
                  s \in sites, z \in {PyNone, PyStr("abc")}}
          [] cls = "DialogueStartSession" ->
               {New(cls, [init |-> i, site_id |-> s, lang |-> l]) :
                  i \in inits, s \in sites, l \in {PyNone, PyStr("en")}}
          [] cls = "ServiceGetStatus" ->
               {PyObj(cls, [siteId |-> s]) : s \in sites}

\* The objects json.loads reads from the payloads delivered on
\* hermes/nlu/query: input, siteId and sessionId, each present or not,
\* and before or after them nothing, a key no field is named after, or the
\* Python spelling of site_id.
InboundPayloads ==
    LET extra == {<< >>,
                  <<Pair("foo", JStr("bar"))>>,
                  <<Pair("site_id", JStr("living_room"))>>}
        opt(present, key, value) ==
            IF present THEN <<Pair(key, value)>> ELSE << >>
    IN  {JObj(before \o opt(i, "input", JStr("turn on the light"))
                     \o opt(s, "siteId", JStr("kitchen"))
                     \o opt(z, "sessionId", JStr("abc"))
                     \o after) :
           i \in BOOLEAN, s \in BOOLEAN, z \in BOOLEAN,
           before \in extra, after \in extra}

JsonIdle ==
    /\ js_pc = "off"
    /\ js_type = "NluQuery"
    /\ js_instance = PyNone
    /\ js_payload = Raised
    /\ js_out = Raised

\* message.payload()
EncodePayload ==
    /\ js_pc = "built"
    /\ js_pc' = "encoded"
    /\ js_payload' = Payload(js_instance)
    /\ UNCHANGED <<js_type, js_instance, js_out, not_json_vars>>

\* type(message).from_dict(json.loads(payload))
DecodePayload ==
    /\ js_pc = "encoded"
    /\ ~js_payload.raised
    /\ js_pc' = "decoded"
    /\ js_out' = FromDict(js_type, js_payload.value)
    /\ UNCHANGED <<js_type, js_instance, js_payload, not_json_vars>>

\* parse_mqtt_message on a JSON type: json.loads, then from_dict
DecodeInbound ==
    /\ js_pc = "inbound"
    /\ js_pc' = "parsed"
    /\ js_out' = FromDict(js_type, js_payload.value)
    /\ UNCHANGED <<js_type, js_instance, js_payload, not_json_vars>>

NextJson == EncodePayload \/ DecodePayload \/ DecodeInbound

\* A set iterator that is not in use.
NoIter == [todo |-> {}, used |-> 0]

\* No thread is inside subscribe_topics or mqtt_on_connect.
RaceIdle ==
    /\ ca_pc = "off"
    /\ nw_pc = "off"
    /\ ca_topics = << >>
    /\ ca_thread = "loop"
    /\ ca_iter = NoIter
    /\ nw_iter = NoIter
    /\ subscribe_lock = "free"
    /\ writer = "none"

(***************************************************************************)
(* The topic functions applied to bounded inputs.                          *)
(***************************************************************************)
\* Concrete placeholder values: two plain ids, the empty string and an id
\* that contains a "/".
Values == {Str("kitchen"), Str("abc"), Str(""), <<"a", "b">>}

\* The keywords topic(kwargs) of a class reads, per its template.
Placeholders(mt) ==
    CASE mt \in {"AudioFrame", "AudioPlayFinished", "AudioSummary", "AsrTrain",
                 "AsrTrainSuccess", "NluTrain", "NluTrainSuccess"} -> {"site_id"}
      [] mt \in {"AudioPlayBytes", "HotwordExampleRecorded"} -> {"site_id", "request_id"}
      [] mt \in {"AudioSessionFrame", "AsrAudioCaptured"} -> {"site_id", "session_id"}
      [] mt = "NluIntent" -> {"intent_name"}
      [] mt = "HotwordDetected" -> {"wakeword_id"}
      [] mt = "IntentGraph" -> {"request_id"}
      [] OTHER -> {}

\* Every keyword dictionary over a subset of the placeholders of mt.
KwargsOf(mt) ==
    UNION {[ks -> Values] : ks \in SUBSET Placeholders(mt)}

NoOut == [is_topic |-> FALSE, site_id |-> Raised, session_id |-> Raised,
          request_id |-> Raised, intent_name |-> Raised, wakeword_id |-> Raised]

TopicIdle ==
    /\ tp_pc = "off"
    /\ tp_type = "NluQuery"
    /\ tp_kwargs = << >>
    /\ tp_topic = None
    /\ tp_out = NoOut

InitTopic ==
    /\ tp_pc = "args"
    /\ tp_type \in MessageTypes
    /\ tp_kwargs \in KwargsOf(tp_type)
    /\ tp_topic = None
    /\ tp_out = NoOut

\* topic = cls.topic(kwargs)
RenderTopic ==
    /\ tp_pc = "args"
    /\ tp_topic' = Topic(tp_type, tp_kwargs)
    /\ tp_pc' = "rendered"
    /\ UNCHANGED <<tp_type, tp_kwargs, tp_out, not_topic_vars>>

\* cls.is_topic(topic) and every extractor of the class applied to topic
ExtractTopic ==
    /\ tp_pc = "rendered"
    /\ tp_out' = [is_topic |-> IsTopic(tp_type, tp_topic),
                  site_id |-> GetSiteId(tp_type, tp_topic),
                  session_id |-> GetSessionId(tp_type, tp_topic),
                  request_id |-> GetRequestId(tp_type, tp_topic),
                  intent_name |-> GetIntentName(tp_type, tp_topic),
                  wakeword_id |-> GetWakewordId(tp_type, tp_topic)]
    /\ tp_pc' = "extracted"
    /\ UNCHANGED <<tp_type, tp_kwargs, tp_topic, not_topic_vars>>

NextTopic == RenderTopic \/ ExtractTopic

\* Topics a class can be asked about: every topic some class renders.
ObservedTopics ==
    UNION {{Topic(mt, kwargs) : kwargs \in KwargsOf(mt)} : mt \in MessageTypes}

\* A class and the keyword dictionary a caller passes to topic(): one over
\* the placeholders of the class, or one with keywords of other classes.
InitObserve ==
    /\ tp_pc = "args"
    /\ tp_type \in MessageTypes
    /\ tp_kwargs \in KwargsOf(tp_type)
           \cup {[k \in {"site_id", "request_id"} |-> Str("kitchen")]}
    /\ tp_topic = None
    /\ tp_out = NoOut

\* cls.is_topic(topic) and every extractor of the class applied to a topic
\* that was not rendered by this call: one some class rendered.
ObserveTopic ==
    /\ tp_pc = "args"
    /\ \E topic \in ObservedTopics :
          /\ tp_topic' = topic
          /\ tp_out' = [is_topic |-> IsTopic(tp_type, topic),
                        site_id |-> GetSiteId(tp_type, topic),
                        session_id |-> GetSessionId(tp_type, topic),
                        request_id |-> GetRequestId(tp_type, topic),
                        intent_name |-> GetIntentName(tp_type, topic),
                        wakeword_id |-> GetWakewordId(tp_type, topic)]
    /\ tp_pc' = "observed"
    /\ UNCHANGED <<tp_type, tp_kwargs, not_topic_vars>>

NextObserve == RenderTopic \/ ExtractTopic \/ ObserveTopic

(***************************************************************************)
(* HermesClient: subscriptions.                                            *)
(***************************************************************************)
\* Bounds of the subscription model.
MaxSubscribeArgs == 2

MaxDisconnects == 2

Range(seq) == {seq[i] : i \in 1..Len(seq)}

RECURSIVE SetToSeq(_)
SetToSeq(S) ==
    IF S = {} THEN << >>
    ELSE LET x == CHOOSE y \in S : TRUE IN <<x>> \o SetToSeq(S \ {x})

\* The bag of the elements of a list, with multiplicity.
RECURSIVE SeqToBag(_)
SeqToBag(seq) ==
    IF seq = << >> THEN EmptyBag
    ELSE SetToBag({Head(seq)}) (+) SeqToBag(Tail(seq))

\* Site ids a client can be configured with, and the types and literal
\* topics the model's callers subscribe.
SiteNames == {Str("kitchen"), Str("living_room")}

SubTypes == {"AudioFrame", "NluQuery", "NluIntent"}

RawTopics == {<<"hermes", "tts", "say">>}

SeqsUpTo(S, n) == UNION {[1..k -> S] : k \in 0..n}

\* The fields subscribe_topics and mqtt_on_connect work on.
ClientSubs ==
    [is_connected |-> is_connected, pending |-> pending_mqtt_topics,
     subscribed |-> subscribed_topics, all |-> all_mqtt_topics,
     calls |-> sub_calls]

\* The list of topics subscribe() builds: one per site id and message type,
\* or one per message type when the client has no site ids.
SubscribeTopicList(sites, message_types) ==
    LET ForSite(s) == [i \in 1..Len(message_types) |->
                          Topic(message_types[i], [site_id |-> s])]
        RECURSIVE Cat(_)
        Cat(ss) == IF ss = << >> THEN << >>
                   ELSE ForSite(Head(ss)) \o Cat(Tail(ss))
    IN  IF sites # {}
        THEN Cat(SetToSeq(sites))
        ELSE [i \in 1..Len(message_types) |-> Topic(message_types[i], << >>)]

\* Mutant: the pending topics are not cleared after a connected subscribe.
SubscribeTopics_KeepPending(c, topics) ==
    LET pending == c.pending \cup Range(topics)
        fresh == pending \ c.subscribed
    IN  IF c.is_connected
        THEN [c EXCEPT !.pending = pending,
                       !.all = c.all \cup pending,
                       !.subscribed = c.subscribed \cup fresh,
                       !.calls = c.calls (+) SetToBag(fresh)]
        ELSE [c EXCEPT !.pending = pending]

\* Mutant: the "Don't re-subscribe" test is dropped.
SubscribeTopics_Resubscribe(c, topics) ==
    LET pending == c.pending \cup Range(topics)
    IN  IF c.is_connected
        THEN [c EXCEPT !.pending = {},
                       !.all = c.all \cup pending,
                       !.subscribed = c.subscribed \cup pending,
                       !.calls = c.calls (+) SetToBag(pending)]
        ELSE [c EXCEPT !.pending = pending]

\* subscribe_topics(*topics), mqtt_client.subscribe returning normally.
SubscribeTopics(c, topics) ==
    LET pending == c.pending \cup Range(topics)
        fresh == pending \ c.subscribed
    IN  IF c.is_connected
        THEN [c EXCEPT !.pending = {},
                       !.all = c.all \cup pending,
                       !.subscribed = c.subscribed \cup fresh,
                       !.calls = c.calls (+) SetToBag(fresh)]
        ELSE [c EXCEPT !.pending = pending]

\* Mutant: the cached topics are not queued again on connect.
OnConnectPrepare_NoReplay(c) ==
    [c EXCEPT !.is_connected = TRUE,
              !.subscribed = {},
              !.calls = EmptyBag]

\* The part of mqtt_on_connect before its self.subscribe() call.
OnConnectPrepare(c) ==
    [c EXCEPT !.is_connected = TRUE,
              !.subscribed = {},
              !.pending = c.pending \cup c.all,
              !.calls = EmptyBag]

SetClientSubs(c) ==
    /\ is_connected' = c.is_connected
    /\ pending_mqtt_topics' = c.pending
    /\ subscribed_topics' = c.subscribed
    /\ all_mqtt_topics' = c.all
    /\ sub_calls' = c.calls

\* subscribe(*message_types)
Subscribe ==
    \E message_types \in SeqsUpTo(SubTypes, MaxSubscribeArgs) :
        LET topics == SubscribeTopicList(site_ids, message_types)
        IN  /\ subscribed_types' = subscribed_types \cup Range(message_types)
            /\ SetClientSubs(SubscribeTopics(ClientSubs, topics))
            /\ requested' = requested \cup Range(topics)
            /\ last_op' = [op |-> "subscribe", topics |-> Range(topics),
                           known |-> Range(topics) \cap requested,
                           connected |-> is_connected]
            /\ UNCHANGED <<site_ids, reconnect_calls, failed_topics,
                           not_sub_vars>>

\* subscribe_topics(topic) called directly with a literal topic
SubscribeTopicsCall ==
    \E t \in RawTopics :
        /\ SetClientSubs(SubscribeTopics(ClientSubs, <<t>>))
        /\ requested' = requested \cup {t}
        /\ last_op' = [op |-> "subscribe_topics", topics |-> {t},
                       known |-> {t} \cap requested,
                       connected |-> is_connected]
        /\ UNCHANGED <<site_ids, subscribed_types, reconnect_calls,
                       failed_topics, not_sub_vars>>

\* mqtt_on_connect: the transport's connect event
MqttOnConnect ==
    /\ SetClientSubs(SubscribeTopics(OnConnectPrepare(ClientSubs),
                        SubscribeTopicList(site_ids, << >>)))
    /\ last_op' = [op |-> "connect",
                   topics |-> pending_mqtt_topics \cup all_mqtt_topics,
                   known |-> pending_mqtt_topics,
                   connected |-> is_connected]
    /\ failed_topics' = {}
    /\ UNCHANGED <<site_ids, subscribed_types, requested, reconnect_calls,
                   not_sub_vars>>

\* Mutant: the disconnect event does not ask the transport to reconnect.
MqttOnDisconnect_NoReconnect ==
    /\ reconnect_calls < MaxDisconnects
    /\ is_connected' = FALSE
    /\ last_op' = [op |-> "disconnect", topics |-> {}, known |-> {},
                   connected |-> is_connected]
    /\ UNCHANGED <<site_ids, pending_mqtt_topics, subscribed_types,
                   subscribed_topics, all_mqtt_topics, sub_calls, requested,
                   reconnect_calls, failed_topics, not_sub_vars>>

\* mqtt_on_disconnect: the transport's disconnect event
MqttOnDisconnect ==
    /\ reconnect_calls < MaxDisconnects
    /\ is_connected' = FALSE
    /\ reconnect_calls' = reconnect_calls + 1
    /\ last_op' = [op |-> "disconnect", topics |-> {}, known |-> {},
                   connected |-> is_connected]
    /\ UNCHANGED <<site_ids, pending_mqtt_topics, subscribed_types,
                   subscribed_topics, all_mqtt_topics, sub_calls, requested,
                   failed_topics, not_sub_vars>>

SiteIdConfigs == SUBSET SiteNames

\* HermesClient.__init__
InitSub ==
    /\ site_ids \in SiteIdConfigs
    /\ is_connected = FALSE
    /\ pending_mqtt_topics = {}
    /\ subscribed_types = {}
    /\ subscribed_topics = {}
    /\ all_mqtt_topics = {}
    /\ sub_calls = EmptyBag
    /\ requested = {}
    /\ reconnect_calls = 0
    /\ failed_topics = {}
    /\ last_op = [op |-> "init", topics |-> {}, known |-> {},
                  connected |-> FALSE]

NextSub ==
    \/ Subscribe
    \/ SubscribeTopicsCall
    \/ MqttOnConnect
    \/ MqttOnDisconnect

\* subscribe_topics(*topics) on a connected client when mqtt_client.subscribe
\* raises for the topic at: the loop over the pending set (a set, so in any
\* order) has handled the topics of done before it reaches at. The topic at
\* is already in all_mqtt_topics but not in subscribed_topics, and the
\* exception leaves the method before pending_mqtt_topics.clear().
SubscribeTopicsRaises(c, topics, done, at) ==
    LET pending == c.pending \cup Range(topics)
        fresh == done \ c.subscribed
    IN  [c EXCEPT !.pending = pending,
                  !.all = c.all \cup done \cup {at},
                  !.subscribed = c.subscribed \cup fresh,
                  !.calls = c.calls (+) SetToBag(fresh \cup {at})]

\* Bound: mqtt_client.subscribe calls for one topic within one connection
\* after which the model lets no further call raise.
MaxAttempts == 1

\* The places of a subscribe_topics loop where mqtt_client.subscribe is
\* called and can raise: a pending topic that is not subscribed yet, after
\* any of the other pending topics.
RaisePoints(c, topics) ==
    LET pending == c.pending \cup Range(topics)
    IN  {p \in (pending \ c.subscribed) \X (SUBSET pending) :
            /\ p[1] \notin p[2]
            /\ CopiesIn(p[1], c.calls) < MaxAttempts}

\* subscribe(*message_types) on a connected client, mqtt_client.subscribe
\* raising: the exception reaches the caller.
SubscribeRaises ==
    \E message_types \in SeqsUpTo(SubTypes, MaxSubscribeArgs) :
        LET topics == SubscribeTopicList(site_ids, message_types)
        IN  /\ is_connected
            /\ \E p \in RaisePoints(ClientSubs, topics) :
                   /\ SetClientSubs(SubscribeTopicsRaises(ClientSubs, topics,
                                                          p[2], p[1]))
                   /\ failed_topics' = failed_topics \cup
                          ((pending_mqtt_topics \cup Range(topics)) \ p[2])
            /\ subscribed_types' = subscribed_types \cup Range(message_types)
            /\ requested' = requested \cup Range(topics)
            /\ last_op' = [op |-> "subscribe_raises", topics |-> Range(topics),
                           known |-> Range(topics) \cap requested,
                           connected |-> is_connected]
            /\ UNCHANGED <<site_ids, reconnect_calls, not_sub_vars>>

\* mqtt_on_connect when mqtt_client.subscribe raises during the replay: the
\* except clause of mqtt_on_connect logs the exception.
MqttOnConnectRaises ==
    LET c == OnConnectPrepare(ClientSubs)
    IN  /\ \E p \in RaisePoints(c, << >>) :
               /\ SetClientSubs(SubscribeTopicsRaises(c, << >>, p[2], p[1]))
               /\ failed_topics' = c.pending \ p[2]
        /\ last_op' = [op |-> "connect_raises",
                       topics |-> pending_mqtt_topics \cup all_mqtt_topics,
                       known |-> pending_mqtt_topics,
                       connected |-> is_connected]
        /\ UNCHANGED <<site_ids, subscribed_types, requested, reconnect_calls,
                       not_sub_vars>>

NextSubFail ==
    \/ Subscribe
    \/ MqttOnConnect
    \/ MqttOnDisconnect
    \/ SubscribeRaises
    \/ MqttOnConnectRaises

(***************************************************************************)
(* HermesClient: inbound messages.                                         *)
(***************************************************************************)
\* Bounds of the dispatch model: messages the transport delivers, and
\* messages one handler generator yields.
MaxMsgs == 3

MaxYield == 2

\* Payloads: bytes that are not JSON, or a JSON object that does or does not
\* carry the required fields of its type and may carry "siteId" and
\* "sessionId".
Bytes ==
    [form |-> "invalid", complete |-> FALSE, siteId |-> None, sessionId |-> None]

ObjSession(site, session) ==
    [form |-> "object", complete |-> TRUE, siteId |-> site, sessionId |-> session]

Obj(site) == ObjSession(site, None)

Incomplete ==
    [form |-> "object", complete |-> FALSE, siteId |-> Str("kitchen"),
     sessionId |-> None]

\* The (topic, payload) pairs the transport delivers.
InMsgs ==
    {<<NluQuery_topic(<< >>), ObjSession(Str("kitchen"), Str("abc"))>>,
     <<NluQuery_topic(<< >>), Obj(Str("living_room"))>>,
     <<NluQuery_topic(<< >>), Obj(None)>>,
     <<NluQuery_topic(<< >>), Obj(Str(""))>>,
     <<NluQuery_topic(<< >>), Bytes>>,
     <<NluQuery_topic(<< >>), Incomplete>>,
     <<AudioFrame_topic([site_id |-> Str("kitchen")]), Bytes>>,
     <<AudioFrame_topic([site_id |-> Str("living_room")]), Bytes>>,
     <<IntentGraph_topic([request_id |-> Str("abc")]), Obj(Str("kitchen"))>>}

\* The message types the dispatching client has subscribed, in the order of
\* the arguments of subscribe.
DispatchTypes == <<"AudioFrame", "NluQuery">>

\* Two registered types that accept the same topic.
RouteTypes == <<"NluQuery", "AppNluQuery">>

DispatchSiteConfigs == {{}, {Str("kitchen")}}

\* The None entry that ends the main loop.
StopItem == [id |-> 0]

\* The main loop has taken no message yet.
NoMqttMessage == [id |-> 0, topic |-> None, payload |-> Bytes]

\* site_id: str = "default" of the JSON message classes
DefaultSiteId == Str("default")

\* message_type(payload) for a binary type, message_type.from_dict(json)
\* for a JSON type.
Decode(mt, payload) ==
    IF IsBinaryPayload(mt)
    THEN [type |-> mt, site_id |-> None, session_id |-> None, body |-> payload]
    ELSE [type |-> mt,
          site_id |-> IF payload.siteId = None THEN DefaultSiteId
                      ELSE payload.siteId,
          session_id |-> payload.sessionId,
          body |-> payload]

NoMessage == [type |-> "", site_id |-> None, session_id |-> None, body |-> Bytes]

\* What one pass of the generator parse_mqtt_message does: it yields one
\* tuple, or yields nothing (no match, or an exception caught and logged),
\* or lets an exception escape.
Yields(message, site_id, session_id) ==
    [yielded |-> TRUE, escaped |-> FALSE, message |-> message,
     site_id |-> site_id, session_id |-> session_id]

YieldsNothing ==
    [yielded |-> FALSE, escaped |-> FALSE, message |-> NoMessage,
     site_id |-> None, session_id |-> None]

Escapes ==
    [yielded |-> FALSE, escaped |-> TRUE, message |-> NoMessage,
     site_id |-> None, session_id |-> None]

\* An exception is raised in the body of parse_mqtt_message for the matched
\* type: json.loads, json_payload.get, from_dict or an extractor.
ParseRaises(mt, topic, payload) ==
    \/ ~IsBinaryPayload(mt) /\ payload.form = "invalid"
    \/ ~IsBinaryPayload(mt) /\ ~payload.complete
    \/ IsSiteInTopic(mt) /\ GetSiteId(mt, topic).raised
    \/ IsSessionInTopic(mt) /\ GetSessionId(mt, topic).raised

\* Mutant: the payload of a binary type goes through json.loads too.
ParseWith_JsonAlways(mt, topic, payload) ==
    IF ParseRaises(mt, topic, payload) \/ payload.form = "invalid"
    THEN YieldsNothing
    ELSE Yields(Decode(mt, payload),
                IF IsSiteInTopic(mt) THEN GetSiteId(mt, topic).value
                ELSE payload.siteId,
                IF IsSessionInTopic(mt) THEN GetSessionId(mt, topic).value
                ELSE None)

\* Mutant: the try/except of parse_mqtt_message is missing.
ParseWith_NoCatch(mt, topic, payload) ==
    IF ParseRaises(mt, topic, payload) THEN Escapes
    ELSE Yields(Decode(mt, payload),
                IF IsSiteInTopic(mt) THEN GetSiteId(mt, topic).value
                ELSE IF IsBinaryPayload(mt) THEN None ELSE payload.siteId,
                IF IsSessionInTopic(mt) THEN GetSessionId(mt, topic).value
                ELSE None)

\* The body of parse_mqtt_message for the first matching type mt.
ParseWith(mt, topic, payload) ==
    IF ParseRaises(mt, topic, payload) THEN YieldsNothing
    ELSE Yields(Decode(mt, payload),
                IF IsSiteInTopic(mt) THEN GetSiteId(mt, topic).value
                ELSE IF IsBinaryPayload(mt) THEN None ELSE payload.siteId,
                IF IsSessionInTopic(mt) THEN GetSessionId(mt, topic).value
                ELSE None)

\* parse_mqtt_message(topic, payload, subscribed_types): subscribed_types is
\* a set, so any matching type can come first in the iteration.
ParseMqttMessage(topic, payload, types) ==
    LET matching == {mt \in types : IsTopic(mt, topic)}
    IN  IF matching = {} THEN {YieldsNothing}
        ELSE {ParseWith(mt, topic, payload) : mt \in matching}

\* valid_site_id(site_id)
ValidSiteId(site_id, sites) ==
    IF Truthy(site_id) /\ sites # {} THEN site_id \in sites ELSE TRUE

\* Mutant: the blocking handler is started without being awaited.
AwaitBlocking_Detached == "get"

\* await self.publish_all(self.on_message_blocking(...)): where the main
\* loop is while the blocking handler runs.
AwaitBlocking == "blocking"

NoCur == [handler |-> "none", id |-> 0, message |-> NoMessage,
          site_id |-> None, session_id |-> None, topic |-> None]

Call(handler, m, o) ==
    [handler |-> handler, id |-> m.id, message |-> o.message,
     site_id |-> o.site_id, session_id |-> o.session_id, topic |-> m.topic]

Task(call) == [id |-> call.id, kind |-> call.handler, yielded |-> 0]

NoPublish == [id |-> 0, kind |-> "none", n |-> 0]

\* The main loop is suspended in await publish_all(on_message_blocking(...))
\* of task t.
Awaited(t) ==
    hm_pc = "blocking" /\ t.kind = "on_message_blocking" /\ cur.id = t.id

\* What kind of input a message is for a client subscribed to types: its
\* topic matches no type, or it matches one and the payload can or cannot
\* be decoded as that type.
InputClass(m, types) ==
    LET matching == {mt \in types : IsTopic(mt, m.topic)}
    IN  IF matching = {} THEN "unmatched"
        ELSE IF \E mt \in matching :
                   ~IsBinaryPayload(mt)
                   /\ (m.payload.form = "invalid" \/ ~m.payload.complete)
             THEN "undecodable"
             ELSE "decodable"

\* Mutant: on_raw_message is called only for a message some subscribed
\* type matches.
RawMessageCalls_IfMatched(m) ==
    IF InputClass(m, subscribed_types) = "unmatched" THEN 0 ELSE 1

\* The on_raw_message(topic, payload) calls the main loop makes for a
\* message it took: one, wrapped in create_task, before the message is
\* parsed.
RawMessageCalls(m) == 1

\* The entry of taken for message m.
Taken(m, blocking) ==
    [id |-> m.id, class |-> InputClass(m, subscribed_types),
     raw |-> RawMessageCalls(m), blocking |-> blocking, nonblocking |-> FALSE]

\* mqtt_on_message, first half: the network thread tests
\* self.loop and self.in_queue
NetReceive ==
    /\ net_pc = "idle"
    /\ delivered < MaxMsgs
    /\ net_msg' = [id |-> delivered + 1]
    /\ delivered' = delivered + 1
    /\ net_pc' = IF loop_set /\ in_queue.made THEN "put_in" ELSE "put_pre"
    /\ UNCHANGED <<loop_set, in_queue, pre_queue, loop_calls, hm_pc, mqtt_message, cur, tasks,
                   taken, last_publish, exit_cause, stop_requested,
                   not_disp_vars>>

\* mqtt_on_message: self.loop.call_soon_threadsafe(self.in_queue.put_nowait, msg)
NetCallSoon ==
    /\ net_pc = "put_in"
    /\ loop_calls' = Append(loop_calls, net_msg)
    /\ net_pc' = "idle"
    /\ UNCHANGED <<loop_set, in_queue, pre_queue, net_msg, delivered, hm_pc, mqtt_message, cur,
                   tasks, taken, last_publish, exit_cause, stop_requested,
                   not_disp_vars>>

\* mqtt_on_message: self.pre_queue.put(msg)
NetPrePut ==
    /\ net_pc = "put_pre"
    /\ pre_queue' = Append(pre_queue, net_msg)
    /\ net_pc' = "idle"
    /\ UNCHANGED <<loop_set, in_queue, loop_calls, net_msg, delivered, hm_pc, mqtt_message, cur,
                   tasks, taken, last_publish, exit_cause, stop_requested,
                   not_disp_vars>>

\* The event loop runs a scheduled in_queue.put_nowait(msg); it can do so
\* only while the coroutine handle_messages_async is suspended or over.
RunLoopCallback ==
    /\ hm_pc \in {"get", "blocking", "done"}
    /\ loop_calls # << >>
    /\ in_queue' = [in_queue EXCEPT !.items = Append(@, Head(loop_calls))]
    /\ loop_calls' = Tail(loop_calls)
    /\ UNCHANGED <<loop_set, pre_queue, net_pc, net_msg, delivered, hm_pc, mqtt_message, cur,
                   tasks, taken, last_publish, exit_cause, stop_requested,
                   not_disp_vars>>

\* handle_messages_async: self.loop = ...; self.in_queue = asyncio.Queue()
HandleMessagesAsync ==
    /\ hm_pc = "off"
    /\ loop_set' = TRUE
    /\ in_queue' = [made |-> TRUE, items |-> << >>]
    /\ hm_pc' = "drain"
    /\ UNCHANGED <<pre_queue, loop_calls, net_pc, net_msg, delivered, mqtt_message, cur, tasks,
                   taken, last_publish, exit_cause, stop_requested,
                   not_disp_vars>>

\* handle_messages_async: one test of pre_queue.qsize() > 0 and, when it
\* holds, in_queue.put_nowait(pre_queue.get_nowait())
DrainPreQueue ==
    /\ hm_pc = "drain"
    /\ IF Len(pre_queue) > 0
       THEN /\ in_queue' = [in_queue EXCEPT !.items = Append(@, Head(pre_queue))]
            /\ pre_queue' = Tail(pre_queue)
            /\ hm_pc' = "drain"
       ELSE /\ hm_pc' = "get"
            /\ UNCHANGED <<in_queue, pre_queue>>
    /\ UNCHANGED <<loop_set, loop_calls, net_pc, net_msg, delivered, mqtt_message, cur, tasks,
                   taken, last_publish, exit_cause, stop_requested,
                   not_disp_vars>>

\* Mutant: the stop request is put in front of the messages already queued.
RequestStop_Front ==
    /\ hm_pc \in {"get", "blocking"}
    /\ ~stop_requested
    /\ in_queue' = [in_queue EXCEPT !.items = <<StopItem>> \o @]
    /\ stop_requested' = TRUE
    /\ UNCHANGED <<loop_set, pre_queue, loop_calls, net_pc, net_msg, delivered,
                   hm_pc, mqtt_message, cur, tasks, taken, last_publish,
                   exit_cause, not_disp_vars>>

\* A caller on the event loop asks the main loop to stop:
\* in_queue.put_nowait(None)
RequestStop ==
    /\ hm_pc \in {"get", "blocking"}
    /\ ~stop_requested
    /\ in_queue' = [in_queue EXCEPT !.items = Append(@, StopItem)]
    /\ stop_requested' = TRUE
    /\ UNCHANGED <<loop_set, pre_queue, loop_calls, net_pc, net_msg, delivered,
                   hm_pc, mqtt_message, cur, tasks, taken, last_publish, exit_cause,
                   not_disp_vars>>

\* One iteration of the main loop up to its first await after in_queue.get():
\* the None test, the on_raw_message task, parse_mqtt_message, valid_site_id
\* and the call of on_message_blocking.  Nothing reads the topic and payload
\* of a message before this point, so they are drawn here.
TakeMessage ==
    /\ hm_pc = "get"
    /\ in_queue.items # << >>
    /\ in_queue' = [in_queue EXCEPT !.items = Tail(@)]
    /\ IF Head(in_queue.items) = StopItem
       THEN /\ hm_pc' = "done"
            /\ exit_cause' = "stop"
            /\ UNCHANGED <<mqtt_message, cur, tasks, taken>>
       ELSE \E tp \in InMsgs :
            LET m == [id |-> Head(in_queue.items).id, topic |-> tp[1],
                      payload |-> tp[2]]
            IN  /\ mqtt_message' = m
                /\ \E o \in ParseMqttMessage(m.topic, m.payload, subscribed_types) :
                      IF o.escaped
                      THEN /\ hm_pc' = "done"
                           /\ exit_cause' = "parse_error"
                           /\ taken' = Append(taken, Taken(m, FALSE))
                           /\ cur' = NoCur
                           /\ UNCHANGED tasks
                      ELSE IF o.yielded /\ ValidSiteId(o.site_id, site_ids)
                      THEN LET call == Call("on_message_blocking", m, o)
                           IN  /\ hm_pc' = AwaitBlocking
                               /\ cur' = call
                               /\ tasks' = tasks \cup {Task(call)}
                               /\ taken' = Append(taken, Taken(m, TRUE))
                               /\ UNCHANGED exit_cause
                      ELSE /\ taken' = Append(taken, Taken(m, FALSE))
                           /\ cur' = NoCur
                           /\ UNCHANGED <<hm_pc, tasks, exit_cause>>
    /\ UNCHANGED <<loop_set, pre_queue, loop_calls, net_pc, net_msg, delivered,
                   last_publish, stop_requested, not_disp_vars>>

\* publish_all: the handler generator yields a message and publish() passes
\* it to mqtt_client.publish
HandlerYield ==
    /\ hm_pc # "drain"
    /\ \E t \in tasks :
          /\ t.yielded < MaxYield
          /\ tasks' = (tasks \ {t}) \cup {[t EXCEPT !.yielded = @ + 1]}
          /\ last_publish' = [id |-> t.id, kind |-> t.kind, n |-> t.yielded + 1]
    /\ UNCHANGED <<loop_set, in_queue, pre_queue, loop_calls, net_pc, net_msg,
                   delivered, hm_pc, mqtt_message, cur, taken, exit_cause, stop_requested,
                   not_disp_vars>>

\* The handler generator raises.  Raised in the awaited blocking handler the
\* exception reaches the main loop's except Exception, which logs and
\* breaks; raised in a task it ends that task.
HandlerRaise ==
    /\ hm_pc # "drain"
    /\ \E t \in tasks :
          /\ tasks' = tasks \ {t}
          /\ IF Awaited(t)
             THEN /\ hm_pc' = "done"
                  /\ exit_cause' = "handler_error"
             ELSE UNCHANGED <<hm_pc, exit_cause>>
    /\ UNCHANGED <<loop_set, in_queue, pre_queue, loop_calls, net_pc, net_msg,
                   delivered, mqtt_message, cur, taken, last_publish, stop_requested,
                   not_disp_vars>>

\* The handler generator is exhausted.  After the awaited blocking handler
\* the main loop creates the task publish_all(on_message(...)) and goes back
\* to in_queue.get(); a task just ends.
HandlerReturn ==
    /\ hm_pc # "drain"
    /\ \E t \in tasks :
          IF Awaited(t)
          THEN LET call == [cur EXCEPT !.handler = "on_message"]
               IN  /\ tasks' = (tasks \ {t}) \cup {Task(call)}
                   /\ cur' = call
                   /\ taken' = [taken EXCEPT ![Len(taken)].nonblocking = TRUE]
                   /\ hm_pc' = "get"
          ELSE /\ tasks' = tasks \ {t}
               /\ UNCHANGED <<cur, taken, hm_pc>>
    /\ UNCHANGED <<loop_set, in_queue, pre_queue, loop_calls, net_pc, net_msg,
                   delivered, mqtt_message, last_publish, exit_cause, stop_requested,
                   not_disp_vars>>

\* No publish_all has been called.
PublishIdle ==
    /\ pa_pc = "off"
    /\ pa_yielded = << >>
    /\ publish_calls = << >>
    /\ mqtt_published = << >>

\* HermesClient.__init__, with loop given or not
InitDispatch ==
    /\ loop_set \in BOOLEAN
    /\ in_queue = [made |-> FALSE, items |-> << >>]
    /\ pre_queue = << >>
    /\ loop_calls = << >>
    /\ net_pc = "idle"
    /\ net_msg = StopItem
    /\ delivered = 0
    /\ hm_pc = "off"
    /\ mqtt_message = NoMqttMessage
    /\ cur = NoCur
    /\ tasks = {}
    /\ taken = << >>
    /\ last_publish = NoPublish
    /\ exit_cause = "none"
    /\ stop_requested = FALSE

\* A client that is never asked to handle messages.
DispatchIdle == InitDispatch /\ loop_set = FALSE

\* The client after __init__ and subscribe(*DispatchTypes).
Init ==
    /\ InitDispatch
    /\ TopicIdle
    /\ PublishIdle
    /\ JsonIdle
    /\ RaceIdle
    /\ site_ids \in DispatchSiteConfigs
    /\ subscribed_types = Range(DispatchTypes)
    /\ is_connected = FALSE
    /\ pending_mqtt_topics = Range(SubscribeTopicList(site_ids, DispatchTypes))
    /\ subscribed_topics = {}
    /\ all_mqtt_topics = {}
    /\ sub_calls = EmptyBag
    /\ requested = pending_mqtt_topics
    /\ reconnect_calls = 0
    /\ failed_topics = {}
    /\ last_op = [op |-> "subscribe", topics |-> pending_mqtt_topics,
                  known |-> {}, connected |-> FALSE]

Next ==
    \/ NetReceive
    \/ NetCallSoon
    \/ NetPrePut
    \/ RunLoopCallback
    \/ HandleMessagesAsync
    \/ DrainPreQueue
    \/ RequestStop
    \/ TakeMessage
    \/ HandlerYield
    \/ HandlerRaise
    \/ HandlerReturn

Spec == Init /\ [][Next]_vars

\* The dispatch loop together with the transport's disconnect event.
DiscTypes == <<"IntentGraph">>

\* A client constructed with a loop and without site ids, after
\* subscribe(*DiscTypes) and the first connect event.
InitDisc ==
    /\ InitDispatch
    /\ loop_set
    /\ TopicIdle
    /\ PublishIdle
    /\ JsonIdle
    /\ RaceIdle
    /\ site_ids = {}
    /\ subscribed_types = Range(DiscTypes)
    /\ is_connected = TRUE
    /\ pending_mqtt_topics = {}
    /\ subscribed_topics = Range(SubscribeTopicList(site_ids, DiscTypes))
    /\ all_mqtt_topics = subscribed_topics
    /\ sub_calls = SetToBag(subscribed_topics)
    /\ requested = subscribed_topics
    /\ reconnect_calls = 0
    /\ failed_topics = {}
    /\ last_op = [op |-> "connect", topics |-> subscribed_topics,
                  known |-> subscribed_topics, connected |-> FALSE]

NextDisc ==
    \/ NetReceive
    \/ NetCallSoon
    \/ NetPrePut
    \/ RunLoopCallback
    \/ HandleMessagesAsync
    \/ DrainPreQueue
    \/ RequestStop
    \/ TakeMessage
    \/ HandlerYield
    \/ HandlerRaise
    \/ HandlerReturn
    \/ MqttOnDisconnect

SpecDisc == InitDisc /\ [][NextDisc]_vars

\* Two types with a binary payload, one with the site id in its topic and one
\* without.
BinaryTypes == <<"AudioFrame", "IntentGraph">>

\* The client after __init__ with a loop and subscribe(*BinaryTypes).
InitBinary ==
    /\ InitDispatch
    /\ loop_set
    /\ TopicIdle
    /\ PublishIdle
    /\ JsonIdle
    /\ RaceIdle
    /\ site_ids \in DispatchSiteConfigs
    /\ subscribed_types = Range(BinaryTypes)
    /\ is_connected = FALSE
    /\ pending_mqtt_topics = Range(SubscribeTopicList(site_ids, BinaryTypes))
    /\ subscribed_topics = {}
    /\ all_mqtt_topics = {}
    /\ sub_calls = EmptyBag
    /\ requested = pending_mqtt_topics
    /\ reconnect_calls = 0
    /\ failed_topics = {}
    /\ last_op = [op |-> "subscribe", topics |-> pending_mqtt_topics,
                  known |-> {}, connected |-> FALSE]

SpecBinary == InitBinary /\ [][Next]_vars

\* The client after __init__ and subscribe(*RouteTypes).
InitRoute ==
    /\ InitDispatch
    /\ TopicIdle
    /\ PublishIdle
    /\ JsonIdle
    /\ RaceIdle
    /\ site_ids = {}
    /\ subscribed_types = Range(RouteTypes)
    /\ is_connected = FALSE
    /\ pending_mqtt_topics = Range(SubscribeTopicList(site_ids, RouteTypes))
    /\ subscribed_topics = {}
    /\ all_mqtt_topics = {}
    /\ sub_calls = EmptyBag
    /\ requested = pending_mqtt_topics
    /\ reconnect_calls = 0
    /\ failed_topics = {}
    /\ last_op = [op |-> "subscribe", topics |-> pending_mqtt_topics,
                  known |-> {}, connected |-> FALSE]

SpecRoute == InitRoute /\ [][Next]_vars

(***************************************************************************)
(* HermesClient: publish and publish_all.                                  *)
(***************************************************************************)
\* Bound of the publishing model: values one generator yields.
MaxItems == 3

\* What a handler generator yields: None, a message, or a pair of a message
\* and the keyword arguments for its topic.
NoneItem == [kind |-> "none", type |-> "", kwargs |-> << >>]

MessageItem(mt) == [kind |-> "message", type |-> mt, kwargs |-> << >>]

PairItem(mt, kwargs) == [kind |-> "pair", type |-> mt, kwargs |-> kwargs]

YieldItems ==
    {NoneItem,
     MessageItem("NluQuery"),
     PairItem("AudioFrame", [site_id |-> Str("kitchen")]),
     MessageItem("AudioFrame"),
     PairItem("AudioPlayBytes", [site_id |-> Str("kitchen")])}

\* mqtt_client.publish(topic, payload) returns or raises.
TransportResults == {"ok", "raises"}

\* Mutant: publish_all drops the keyword arguments of a pair.
ItemArgs_Dropped(item) == << >>

\* publish_all: self.publish(maybe_message) for a message,
\* self.publish(message, **kwargs) for a pair.
ItemArgs(item) == IF item.kind = "pair" THEN item.kwargs ELSE << >>

\* Mutant: publish has no try/except.
Publish_NoCatch(connected, mt, kwargs, result, n) ==
    [call |-> [type |-> mt, kwargs |-> kwargs,
               outcome |-> IF result = "raises" THEN "raised" ELSE "returned"],
     sent |-> <<[call |-> n, topic |-> Topic(mt, kwargs), type |-> mt,
                 result |-> result]>>]

\* Mutant: publish does nothing while the client is disconnected.
Publish_Gated(connected, mt, kwargs, result, n) ==
    [call |-> [type |-> mt, kwargs |-> kwargs,
               outcome |-> "returned"],
     sent |-> IF connected
              THEN <<[call |-> n, topic |-> Topic(mt, kwargs), type |-> mt,
                      result |-> result]>>
              ELSE << >>]

\* publish(message, topic_args), the n-th call of it, by a client whose
\* is_connected is connected, with the transport answering result: the
\* record of the call and the mqtt_client.publish calls it makes.  The topic
\* is message.topic(topic_args), the payload that of the message; whatever
\* is raised inside is logged and publish returns.
Publish(connected, mt, kwargs, result, n) ==
    [call |-> [type |-> mt, kwargs |-> kwargs,
               outcome |-> "returned"],
     sent |-> <<[call |-> n, topic |-> Topic(mt, kwargs), type |-> mt,
                 result |-> result]>>]

\* publish_all(async_generator) is called.
PublishAllStart ==
    /\ pa_pc = "off"
    /\ pa_pc' = "run"
    /\ UNCHANGED <<pa_yielded, publish_calls, mqtt_published, not_pub_vars>>

\* publish_all: one round of the async for.
PublishAllNext ==
    /\ pa_pc = "run"
    /\ Len(pa_yielded) < MaxItems
    /\ \E item \in YieldItems :
          /\ pa_yielded' = Append(pa_yielded, item)
          /\ IF item.kind = "none"
             THEN UNCHANGED <<pa_pc, publish_calls, mqtt_published>>
             ELSE \E result \in TransportResults :
                  LET p == Publish(is_connected, item.type, ItemArgs(item),
                                   result, Len(publish_calls) + 1)
                  IN  /\ publish_calls' = Append(publish_calls, p.call)
                      /\ mqtt_published' = mqtt_published \o p.sent
                      /\ pa_pc' = IF p.call.outcome = "raised" THEN "raised"
                                  ELSE "run"
    /\ UNCHANGED not_pub_vars

\* publish_all: the generator is exhausted.
PublishAllEnd ==
    /\ pa_pc = "run"
    /\ pa_pc' = "done"
    /\ UNCHANGED <<pa_yielded, publish_calls, mqtt_published, not_pub_vars>>

\* The client after __init__, while connect and disconnect events arrive,
\* handle_messages_async starts and publish_all runs.
InitPublish == InitSub /\ site_ids = {} /\ TopicIdle /\ DispatchIdle /\ PublishIdle
    /\ JsonIdle
    /\ RaceIdle

NextPublish ==
    \/ PublishAllStart
    \/ PublishAllNext
    \/ PublishAllEnd
    \/ MqttOnConnect
    \/ MqttOnDisconnect
    \/ HandleMessagesAsync
    \/ DrainPreQueue

SpecPublish == InitPublish /\ [][NextPublish]_vars

InitSubSpec == InitSub /\ TopicIdle /\ DispatchIdle /\ PublishIdle
    /\ JsonIdle
    /\ RaceIdle

SpecSub == InitSubSpec /\ [][NextSub]_vars

\* A client constructed without site ids.
InitSubFail == InitSubSpec /\ site_ids = {}

SpecSubFail == InitSubFail /\ [][NextSubFail]_vars

InitTopicSpec ==
    InitTopic /\ InitSub /\ site_ids = {} /\ DispatchIdle /\ PublishIdle
    /\ JsonIdle
    /\ RaceIdle

SpecTopic == InitTopicSpec /\ [][NextTopic]_vars

InitObserveSpec ==
    InitObserve /\ InitSub /\ site_ids = {} /\ DispatchIdle /\ PublishIdle
    /\ JsonIdle
    /\ RaceIdle

SpecObserve == InitObserveSpec /\ [][NextObserve]_vars

\* Either an instance of a JSON message type has been built, or a payload
\* has arrived for NluQuery.  No client is in use.
InitJson ==
    /\ InitSub /\ site_ids = {} /\ TopicIdle /\ DispatchIdle
    /\ PublishIdle /\ RaceIdle
    /\ js_out = Raised
    /\ \/ /\ js_pc = "built"
          /\ js_type \in {"HandleToggleOn", "NluQuery",
                          "DialogueStartSession", "ServiceGetStatus"}
          /\ js_instance \in InstancesOf(js_type)
          /\ js_payload = Raised
       \/ /\ js_pc = "inbound"
          /\ js_type = "NluQuery"
          /\ js_instance = PyNone
          /\ js_payload \in {Returned(p) : p \in InboundPayloads}

SpecJson == InitJson /\ [][NextJson]_vars

(***************************************************************************)
(* subscribe_topics on the caller's thread while mqtt_on_connect runs on   *)
(* the network thread.  Each action is one statement (or one iteration of  *)
(* the for loop) of one of the two threads; the threads switch only        *)
(* between statements.                                                     *)
(*   ca_pc, nw_pc      position of the caller and of the network thread    *)
(*   ca_topics         the arguments of the caller's subscribe_topics      *)
(*   ca_thread         the thread the caller runs on: the dispatch loop's  *)
(*                 thread (handler code) or another one                    *)
(*   ca_iter, nw_iter  the set iterator of the for loop: the elements not  *)
(*                 yet visited and the size of the set when it was made    *)
(*   subscribe_lock    who holds self.subscribe_lock                       *)
(*   writer            the thread that last wrote the registry             *)
(* next() on a set iterator raises RuntimeError when the size of the set   *)
(* is not the size it had when the iterator was made.                      *)
(***************************************************************************)
MaxRaceArgs == 2

\* The topics of the scenario.
RaceTopics ==
    {NluQuery_topic(<< >>), TtsSay_topic(<< >>), AsrToggleOn_topic(<< >>)}

\* The argument lists of the caller's subscribe_topics(*topics).
RaceArgs ==
    {a \in UNION {[1..n -> RaceTopics] : n \in 1..MaxRaceArgs} :
       \A i, j \in DOMAIN a : i < j => a[i] # a[j]}

\* iter(self.pending_mqtt_topics)
SetIter(S) == [todo |-> S, used |-> Cardinality(S)]

\* A client without site ids that was connected with the topics of
\* all_mqtt_topics subscribed and has been disconnected.  The transport has
\* connected again and is about to call mqtt_on_connect; another thread is
\* about to call subscribe_topics.
InitRace ==
    /\ site_ids = {}
    /\ subscribed_types = {}
    /\ is_connected = FALSE
    /\ all_mqtt_topics \in SUBSET RaceTopics
    /\ subscribed_topics = all_mqtt_topics
    /\ pending_mqtt_topics = {}
    /\ sub_calls = SetToBag(all_mqtt_topics)
    /\ requested = all_mqtt_topics
    /\ reconnect_calls = 1
    /\ failed_topics = {}
    /\ last_op = [op |-> "disconnect", topics |-> {}, known |-> {},
                  connected |-> TRUE]
    /\ ca_pc = "call"
    /\ nw_pc = "event"
    /\ ca_topics \in RaceArgs
    /\ ca_thread \in {"loop", "other"}
    /\ ca_iter = NoIter
    /\ nw_iter = NoIter
    /\ subscribe_lock = "free"
    /\ writer = "none"
    /\ TopicIdle /\ DispatchIdle /\ PublishIdle /\ JsonIdle

\* What the two threads leave alone.
race_rest == <<site_ids, subscribed_types, requested, reconnect_calls,
               failed_topics, last_op, topic_vars, disp_vars, pub_vars,
               json_vars>>

\* One iteration of "for topic in self.pending_mqtt_topics": the topic is
\* added to all_mqtt_topics and subscribed unless it is in subscribed_topics.
LoopBody(topic) ==
    /\ all_mqtt_topics' = all_mqtt_topics \cup {topic}
    /\ IF topic \notin subscribed_topics
       THEN /\ sub_calls' = sub_calls (+) SetToBag({topic})
            /\ subscribed_topics' = subscribed_topics \cup {topic}
       ELSE UNCHANGED <<sub_calls, subscribed_topics>>

\* caller: with self.subscribe_lock
CallerAcquire ==
    /\ ca_pc = "call"
    /\ subscribe_lock = "free"
    /\ subscribe_lock' = "caller"
    /\ ca_pc' = "update"
    /\ UNCHANGED <<is_connected, pending_mqtt_topics, subscribed_topics,
                   all_mqtt_topics, sub_calls, ca_topics, ca_thread, ca_iter,
                   nw_pc, nw_iter, writer, race_rest>>

\* caller: self.pending_mqtt_topics.update(topics)
CallerUpdate ==
    /\ ca_pc = "update"
    /\ pending_mqtt_topics' = pending_mqtt_topics \cup Range(ca_topics)
    /\ writer' = ca_thread
    /\ ca_pc' = "check"
    /\ UNCHANGED <<is_connected, subscribed_topics, all_mqtt_topics,
                   sub_calls, ca_topics, ca_thread, ca_iter, nw_pc, nw_iter,
                   subscribe_lock, race_rest>>

\* caller: if self.is_connected, entering the for loop or leaving the with
\* block
CallerCheck ==
    /\ ca_pc = "check"
    /\ IF is_connected
       THEN /\ ca_pc' = "loop"
            /\ ca_iter' = SetIter(pending_mqtt_topics)
            /\ UNCHANGED subscribe_lock
       ELSE /\ ca_pc' = "done"
            /\ subscribe_lock' = "free"
            /\ UNCHANGED ca_iter
    /\ UNCHANGED <<is_connected, pending_mqtt_topics, subscribed_topics,
                   all_mqtt_topics, sub_calls, ca_topics, ca_thread, nw_pc,
                   nw_iter, writer, race_rest>>

\* caller: the next topic of the for loop and the loop body, the end of the
\* loop, or RuntimeError leaving the with block
CallerNext ==
    /\ ca_pc = "loop"
    /\ IF Cardinality(pending_mqtt_topics) # ca_iter.used
       THEN /\ ca_pc' = "raised"
            /\ subscribe_lock' = "free"
            /\ ca_iter' = NoIter
            /\ UNCHANGED <<all_mqtt_topics, sub_calls, subscribed_topics,
                           writer>>
       ELSE IF ca_iter.todo = {}
       THEN /\ ca_pc' = "clear"
            /\ ca_iter' = NoIter
            /\ UNCHANGED <<all_mqtt_topics, sub_calls, subscribed_topics,
                           subscribe_lock, writer>>
       ELSE \E topic \in ca_iter.todo :
               /\ LoopBody(topic)
               /\ ca_iter' = [ca_iter EXCEPT !.todo = @ \ {topic}]
               /\ writer' = ca_thread
               /\ UNCHANGED <<ca_pc, subscribe_lock>>
    /\ UNCHANGED <<is_connected, pending_mqtt_topics, ca_topics, ca_thread,
                   nw_pc, nw_iter, race_rest>>

\* caller: self.pending_mqtt_topics.clear() and the end of the with block
CallerClear ==
    /\ ca_pc = "clear"
    /\ pending_mqtt_topics' = {}
    /\ writer' = ca_thread
    /\ subscribe_lock' = "free"
    /\ ca_pc' = "done"
    /\ UNCHANGED <<is_connected, subscribed_topics, all_mqtt_topics,
                   sub_calls, ca_topics, ca_thread, ca_iter, nw_pc, nw_iter,
                   race_rest>>

\* network thread: self.is_connected = True.  The calls of
\* mqtt_client.subscribe are counted from this connect event on.
NetSetConnected ==
    /\ nw_pc = "event"
    /\ is_connected' = TRUE
    /\ sub_calls' = EmptyBag
    /\ nw_pc' = "clear_cache"
    /\ UNCHANGED <<pending_mqtt_topics, subscribed_topics, all_mqtt_topics,
                   ca_pc, ca_topics, ca_thread, ca_iter, nw_iter,
                   subscribe_lock, writer, race_rest>>

\* network thread: self.subscribed_topics.clear()
NetClearCache ==
    /\ nw_pc = "clear_cache"
    /\ subscribed_topics' = {}
    /\ writer' = "network"
    /\ nw_pc' = "replay"
    /\ UNCHANGED <<is_connected, pending_mqtt_topics, all_mqtt_topics,
                   sub_calls, ca_pc, ca_topics, ca_thread, ca_iter, nw_iter,
                   subscribe_lock, race_rest>>

\* network thread: self.pending_mqtt_topics.update(self.all_mqtt_topics)
NetReplay ==
    /\ nw_pc = "replay"
    /\ pending_mqtt_topics' = pending_mqtt_topics \cup all_mqtt_topics
    /\ writer' = "network"
    /\ nw_pc' = "acquire"
    /\ UNCHANGED <<is_connected, subscribed_topics, all_mqtt_topics,
                   sub_calls, ca_pc, ca_topics, ca_thread, ca_iter, nw_iter,
                   subscribe_lock, race_rest>>

\* network thread: self.subscribe() without message types, which is
\* subscribe_topics() without topics: the lock is taken, nothing is added
\* to the pending set, is_connected is read and the for loop entered
NetAcquire ==
    /\ nw_pc = "acquire"
    /\ subscribe_lock = "free"
    /\ IF is_connected
       THEN /\ subscribe_lock' = "network"
            /\ nw_pc' = "loop"
            /\ nw_iter' = SetIter(pending_mqtt_topics)
       ELSE /\ nw_pc' = "done"
            /\ UNCHANGED <<subscribe_lock, nw_iter>>
    /\ UNCHANGED <<is_connected, pending_mqtt_topics, subscribed_topics,
                   all_mqtt_topics, sub_calls, ca_pc, ca_topics, ca_thread,
                   ca_iter, writer, race_rest>>

\* network thread: the next topic of the for loop and the loop body, the
\* end of the loop, or RuntimeError caught by mqtt_on_connect
NetNext ==
    /\ nw_pc = "loop"
    /\ IF Cardinality(pending_mqtt_topics) # nw_iter.used
       THEN /\ nw_pc' = "done"
            /\ subscribe_lock' = "free"
            /\ nw_iter' = NoIter
            /\ UNCHANGED <<all_mqtt_topics, sub_calls, subscribed_topics,
                           writer>>
       ELSE IF nw_iter.todo = {}
       THEN /\ nw_pc' = "clear"
            /\ nw_iter' = NoIter
            /\ UNCHANGED <<all_mqtt_topics, sub_calls, subscribed_topics,
                           subscribe_lock, writer>>
       ELSE \E topic \in nw_iter.todo :
               /\ LoopBody(topic)
               /\ nw_iter' = [nw_iter EXCEPT !.todo = @ \ {topic}]
               /\ writer' = "network"
               /\ UNCHANGED <<nw_pc, subscribe_lock>>
    /\ UNCHANGED <<is_connected, pending_mqtt_topics, ca_pc, ca_topics,
                   ca_thread, ca_iter, race_rest>>

\* network thread: self.pending_mqtt_topics.clear(), the end of the with
\* block and of mqtt_on_connect
NetClear ==
    /\ nw_pc = "clear"
    /\ pending_mqtt_topics' = {}
    /\ writer' = "network"
    /\ subscribe_lock' = "free"
    /\ nw_pc' = "done"
    /\ UNCHANGED <<is_connected, subscribed_topics, all_mqtt_topics,
                   sub_calls, ca_pc, ca_topics, ca_thread, ca_iter, nw_iter,
                   race_rest>>

NextRace ==
    \/ CallerAcquire
    \/ CallerUpdate
    \/ CallerCheck
    \/ CallerNext
    \/ CallerClear
    \/ NetSetConnected
    \/ NetClearCache
    \/ NetReplay
    \/ NetAcquire
    \/ NetNext
    \/ NetClear

SpecRace == InitRace /\ [][NextRace]_vars


(***************************************************************************)
(* Properties of the subscription bookkeeping (SpecSub).                   *)
(***************************************************************************)
Copies(t) == CopiesIn(t, sub_calls)

\* C4: right after a connect event, every topic ever handed to
\* subscribe_topics (subscribed on an earlier connection or queued while
\* disconnected) has been passed to mqtt_client.subscribe exactly once on
\* the new connection.
C4_ReconnectReplay ==
    last_op.op = "connect" => \A t \in requested : Copies(t) = 1

\* A reconnect that replays both topics subscribed on the previous
\* connection and topics queued while disconnected.
C4_Witness ==
    /\ last_op.op = "connect"
    /\ reconnect_calls >= 1
    /\ last_op.known # {}
    /\ last_op.topics \ last_op.known # {}
    /\ \A t \in last_op.topics : Copies(t) = 1

Takes == Len(taken') = Len(taken) + 1

\* The site a message names: in its topic for AudioFrame, in its JSON body
\* for NluQuery.
NamedSite(m) ==
    IF IsTopic("AudioFrame", m.topic) THEN <<m.topic[3]>> ELSE m.payload.siteId

\* C1: with a non-empty allow-list S, a handler is never invoked for a
\* message whose resolved site id is present and not in S; a message whose
\* resolved site id is in S or absent, and any message when S is empty, is
\* delivered to on_message_blocking as soon as it is taken.
C1_SiteIdFilter ==
    /\ [](cur.handler # "none" /\ site_ids # {} /\ cur.site_id # None
            => cur.site_id \in site_ids)
    /\ [][Takes =>
            \A o \in ParseMqttMessage(mqtt_message'.topic, mqtt_message'.payload,
                                      subscribed_types) :
               (o.yielded /\ (site_ids = {} \/ o.site_id = None
                                \/ o.site_id \in site_ids))
                  => taken'[Len(taken')].blocking /\ cur'.id = mqtt_message'.id]_vars

\* C2: a message whose topic matches a subscribed JSON type and whose payload
\* fails to decode invokes no handler, starts no publishing task and leaves
\* the main loop waiting for the next message; a decode failure is never why
\* the loop ends; and every decodable message taken, before or after, whose
\* site passes the filter is dispatched to on_message_blocking.
C2_DecodeFailureIsolation ==
    /\ [](/\ \A i \in DOMAIN taken :
                taken[i].class = "undecodable"
                   => ~taken[i].blocking /\ ~taken[i].nonblocking
          /\ \A t \in tasks : \E i \in DOMAIN taken :
                taken[i].id = t.id /\ taken[i].class = "decodable"
          /\ exit_cause # "parse_error")
    /\ [][Takes =>
            /\ InputClass(mqtt_message', subscribed_types) = "undecodable"
                  => hm_pc' = "get" /\ tasks' = tasks
                     /\ last_publish' = last_publish /\ cur' = NoCur
            /\ (/\ InputClass(mqtt_message', subscribed_types) = "decodable"
                /\ (site_ids = {} \/ NamedSite(mqtt_message') \in site_ids))
                  => /\ taken'[Len(taken')].blocking
                     /\ cur'.id = mqtt_message'.id
                     /\ cur'.handler = "on_message_blocking"]_vars

\* C2 witness: A dispatched, B taken and dropped on a decode failure, C
\* dispatched.
C2_Witness ==
    /\ Len(taken) = 3
    /\ taken[1].blocking
    /\ taken[2].class = "undecodable"
    /\ taken[3].blocking /\ taken[3].class = "decodable"
    /\ cur.id = taken[3].id

\* C3 (as the specification states it): no exception raised by a handler
\* ever ends the main loop; the loop ends only on the stop request.
C3_HandlerErrorIsolation == hm_pc = "done" => exit_cause = "stop"

\* Nothing is in flight between the network thread and the main loop, and
\* the main loop is waiting in in_queue.get().
Quiescent ==
    /\ net_pc = "idle"
    /\ loop_calls = << >>
    /\ hm_pc = "get"
    /\ in_queue.items = << >>

\* C5 (as the specification states it): every message handed to
\* mqtt_on_message is taken by the main loop exactly once and in delivery
\* order, so that once nothing is in flight the messages taken are 1, 2, ...,
\* delivered.
C5_InboundHandoff ==
    /\ \A i \in DOMAIN taken : taken[i].id = i
    /\ Quiescent => Len(taken) = delivered

\* C6: the main loop takes no message while an on_message_blocking generator
\* is still running, and every message published from on_message_blocking
\* belongs to the message taken last; so the blocking outputs of a message
\* all precede those of the messages taken after it.
C6_BlockingDispatchOrder ==
    [][/\ Takes => \A t \in tasks : t.kind # "on_message_blocking"
       /\ (last_publish' # last_publish
           /\ last_publish'.kind = "on_message_blocking")
             => /\ taken # << >>
                /\ last_publish'.id = taken[Len(taken)].id
                /\ taken' = taken]_vars

\* C6 witness: the second output of on_message_blocking for B is published
\* after on_message_blocking for A was exhausted, A's on_message task still
\* running.
C6_Witness ==
    /\ Len(taken) = 2
    /\ taken[1].blocking /\ taken[1].nonblocking
    /\ last_publish = [id |-> taken[2].id, kind |-> "on_message_blocking", n |-> 2]
    /\ \E t \in tasks : t.id = taken[1].id /\ t.kind = "on_message"

\* The classes that define the extractor for placeholder k.
HasExtractor(mt, k) ==
    CASE k = "site_id" -> IsSiteInTopic(mt)
      [] k = "session_id" -> IsSessionInTopic(mt)
      [] k = "request_id" -> mt \in {"AudioPlayBytes", "HotwordExampleRecorded"}
      [] k = "intent_name" -> mt = "NluIntent"
      [] k = "wakeword_id" -> mt = "HotwordDetected"

\* A value that is one non-empty topic segment.
OneSegment(v) == Len(v) = 1 /\ v[1] # ""

\* C9 (as the specification states it): for a templated type and values for
\* all its placeholders, each one topic segment, is_topic accepts the
\* rendered topic and every extractor of the type returns the value
\* substituted for its placeholder.
C9_TopicRoundTrip ==
    (/\ tp_pc = "extracted"
     /\ tp_type \in TemplatedTypes
     /\ DOMAIN tp_kwargs = Placeholders(tp_type)
     /\ \A k \in DOMAIN tp_kwargs : OneSegment(tp_kwargs[k]))
       => /\ tp_out.is_topic
          /\ \A k \in Placeholders(tp_type) :
                HasExtractor(tp_type, k) => tp_out[k] = Returned(tp_kwargs[k])

\* C10 (as the specification states it): the site_id a handler receives is
\* the one extracted from the topic for a type with the site in its topic,
\* and for a JSON type without it the siteId of the body, "default" when the
\* body has none.
C10_SiteIdResolution ==
    cur.handler # "none" =>
        LET mt == cur.message.type
        IN  /\ IsSiteInTopic(mt) => cur.site_id = <<cur.topic[3]>>
            /\ (~IsSiteInTopic(mt) /\ ~IsBinaryPayload(mt))
                  => cur.site_id = IF cur.message.body.siteId = None
                                   THEN DefaultSiteId
                                   ELSE cur.message.body.siteId

\* C11 (as the specification states it): the session_id a handler receives
\* is the one extracted from the topic for a type with the session in its
\* topic, and for a JSON type without it the sessionId of the body, None only
\* when the body has none.
C11_SessionIdResolution ==
    cur.handler # "none" =>
        LET mt == cur.message.type
        IN  /\ IsSessionInTopic(mt) => cur.session_id = <<cur.topic[4]>>
            /\ (~IsSessionInTopic(mt) /\ ~IsBinaryPayload(mt))
                  => cur.session_id = cur.message.body.sessionId

\* The first of the registered types, in registration order, whose is_topic
\* accepts the topic.
FirstRegisteredMatch(registered, topic) ==
    LET matching == {i \in DOMAIN registered : IsTopic(registered[i], topic)}
    IN  registered[CHOOSE i \in matching : \A j \in matching : i <= j]

\* C12 (as the specification states it): the message handed to a handler was
\* decoded as the first registered type that matches the topic.
C12_FirstRegisteredMatchWins ==
    cur.handler # "none"
       => cur.message.type = FirstRegisteredMatch(RouteTypes, cur.topic)

\* C13 (as the specification states it): a message taken that matches a
\* subscribed type, decodes and names a site the filter admits is handed to
\* on_message_blocking with the decoded message, site id, session id and
\* topic, and, once the main loop is past that call, has been handed to
\* on_message too; no message has two generators of one handler running.
C13_HandlerInvocationCount ==
    /\ (/\ taken # << >>
        /\ InputClass(mqtt_message, subscribed_types) = "decodable"
        /\ (site_ids = {} \/ NamedSite(mqtt_message) \in site_ids))
          => /\ taken[Len(taken)].blocking
             /\ cur.id = mqtt_message.id /\ cur.topic = mqtt_message.topic
             /\ cur.message.body = mqtt_message.payload
             /\ hm_pc # "blocking" => taken[Len(taken)].nonblocking
    /\ \A t, u \in tasks : (t.id = u.id /\ t.kind = u.kind) => t = u

\* in_queue changes only by an entry added at its end or taken at its head.
QueueStep ==
    \/ in_queue'.items = in_queue.items
    \/ in_queue.items # << >> /\ in_queue'.items = Tail(in_queue.items)
    \/ /\ Len(in_queue'.items) = Len(in_queue.items) + 1
       /\ SubSeq(in_queue'.items, 1, Len(in_queue.items)) = in_queue.items

C15_StopDrainsTasks == (hm_pc = "done" /\ exit_cause = "stop") => tasks = {}

(***************************************************************************)
(* Properties of publish and publish_all (SpecPublish).                    *)
(***************************************************************************)
\* The values yielded that are not None.
Messages(yielded) == SelectSeq(yielded, LAMBDA item : item.kind # "none")

\* C16: the calls of mqtt_client.publish are, in order, the values the
\* generator yielded that are not None, each with the topic its message
\* renders, from the keyword arguments of the pair when it came as a pair.
C16_OutboundOrder ==
    LET ms == Messages(pa_yielded)
    IN  /\ Len(mqtt_published) = Len(ms)
        /\ \A i \in DOMAIN ms :
              /\ mqtt_published[i].type = ms[i].type
              /\ mqtt_published[i].topic =
                    Topic(ms[i].type,
                          IF ms[i].kind = "pair" THEN ms[i].kwargs ELSE << >>)

\* C16 witness: a generator yielded a message, None and a pair, and exactly
\* the message and the pair were published, in that order.
C16_Witness ==
    /\ pa_pc = "done"
    /\ pa_yielded = <<MessageItem("NluQuery"), NoneItem,
                      PairItem("AudioFrame", [site_id |-> Str("kitchen")])>>
    /\ Len(mqtt_published) = 2
    /\ mqtt_published[2].topic = <<"hermes", "audioServer", "kitchen", "audioFrame">>

\* C17: every call of publish makes exactly one call of mqtt_client.publish,
\* with the topic and payload of its message, whether the client is
\* connected or not and whether handle_messages_async runs or not, and the
\* step changes nothing of the subscription and dispatch state.
C17_PublishNotGated ==
    /\ [](/\ Len(mqtt_published) = Len(publish_calls)
          /\ \A i \in DOMAIN publish_calls :
                /\ mqtt_published[i].call = i
                /\ mqtt_published[i].type = publish_calls[i].type
                /\ mqtt_published[i].topic =
                      Topic(publish_calls[i].type, publish_calls[i].kwargs))
    /\ [][publish_calls' # publish_calls
            => /\ Len(publish_calls') = Len(publish_calls) + 1
               /\ Len(mqtt_published') = Len(mqtt_published) + 1
               /\ UNCHANGED <<sub_vars, disp_vars>>]_vars

\* C17 witness: publish was called twice by a client that has never been
\* connected and whose handle_messages_async has not been called, and both
\* calls reached mqtt_client.publish.
C17_Witness ==
    /\ Len(publish_calls) = 2 /\ Len(mqtt_published) = 2
    /\ ~is_connected /\ last_op.op = "init"
    /\ hm_pc = "off"

\* C18: publish returns normally whatever mqtt_client.publish does; after a
\* call that raised, publish_all is still in its loop, the values yielded
\* later are published in order, and the step leaves the dispatch state as
\* it was.
C18_PublishFailureNonFatal ==
    /\ [](/\ pa_pc # "raised"
          /\ \A i \in DOMAIN publish_calls : publish_calls[i].outcome = "returned"
          /\ Len(mqtt_published) = Len(Messages(pa_yielded)))
    /\ [][(/\ Len(mqtt_published') = Len(mqtt_published) + 1
           /\ mqtt_published'[Len(mqtt_published')].result = "raises")
            => pa_pc' = "run" /\ UNCHANGED disp_vars]_vars

\* C18 witness: mqtt_client.publish raised for the first message of a
\* generator, and the second was published afterwards.
C18_Witness ==
    /\ pa_pc = "done"
    /\ Len(mqtt_published) = 2
    /\ mqtt_published[1].result = "raises"
    /\ mqtt_published[2].result = "ok"
    /\ Len(Messages(pa_yielded)) = 2

\* The placeholders of its topic template that a publish call does not
\* supply.
MissingParameters(call) == Placeholders(call.type) \ DOMAIN call.kwargs

\* C20 (as the specification states it): a publish call that leaves a
\* placeholder of the topic template without a value ends with
\* InvalidParameters and makes no mqtt_client.publish call; no message is
\* published to a topic with a wildcard.
C20_MissingPublishParameters ==
    /\ \A i \in DOMAIN publish_calls :
          MissingParameters(publish_calls[i]) # {}
             => /\ publish_calls[i].outcome = "InvalidParameters"
                /\ \A j \in DOMAIN mqtt_published : mqtt_published[j].call # i
    /\ \A j \in DOMAIN mqtt_published :
          \A k \in DOMAIN mqtt_published[j].topic :
             mqtt_published[j].topic[k] \notin {"+", "#"}


(***************************************************************************)
(* Properties of the subscription bookkeeping when mqtt_client.subscribe   *)
(* can raise (SpecSubFail).                                                *)
(***************************************************************************)
\* C19 (as the specification states it): the topic mqtt_client.subscribe
\* raised for, and every topic that was waiting behind it, is passed to
\* mqtt_client.subscribe at the next connect event, whether that event
\* completes its replay or not.
C19_SubscribeFailureRetried ==
    [][last_op'.op \in {"connect", "connect_raises"}
          => \A t \in failed_topics : CopiesIn(t, sub_calls') >= 1]_vars


(***************************************************************************)
(* Properties of the topic functions on any topic (SpecObserve).           *)
(***************************************************************************)
\* C21 (as the specification states it): an extractor applied to a topic
\* returns None, without raising, when the type has no such placeholder or
\* when the topic does not match the template of the type.
C21_ExtractNonMatching ==
    tp_pc \in {"extracted", "observed"} =>
        \A k \in {"site_id", "session_id", "request_id", "intent_name",
                  "wakeword_id"} :
            (k \notin Placeholders(tp_type) \/ ~tp_out.is_topic)
                => tp_out[k] = Returned(None)

\* The literal topic the tests and docstrings give for a fixed type.
FixedTopic(mt) ==
    CASE mt = "NluQuery" -> <<"hermes", "nlu", "query">>
      [] mt = "TtsSay" -> <<"hermes", "tts", "say">>
      [] mt = "AsrToggleOn" -> <<"hermes", "asr", "toggleOn">>
      [] mt = "DialogueEndSession" -> <<"hermes", "dialogueManager", "endSession">>

C25_IndependentIdentifiers ==
    (/\ tp_pc = "extracted"
     /\ tp_type = "AsrAudioCaptured"
     /\ DOMAIN tp_kwargs = {"site_id", "session_id"}
     /\ OneSegment(tp_kwargs.site_id) /\ OneSegment(tp_kwargs.session_id)
     /\ tp_kwargs.site_id # tp_kwargs.session_id)
       => /\ tp_out.site_id = Returned(tp_kwargs.site_id)
          /\ tp_out.session_id = Returned(tp_kwargs.session_id)


(***************************************************************************)
(* Properties of the dispatch loop under disconnect events (SpecDisc).     *)
(***************************************************************************)
\* C22: every disconnect event leaves is_connected false and calls
\* mqtt_client.reconnect() exactly once; it changes nothing of the dispatch
\* loop (its position, its queue, its tasks), and a message waiting in
\* in_queue at await in_queue.get() can be taken whether the client is
\* connected or not.
C22_DisconnectHandling ==
    /\ []((hm_pc = "get" /\ in_queue.items # << >>) => ENABLED TakeMessage)
    /\ [][(sub_vars' # sub_vars /\ last_op'.op = "disconnect")
            => /\ ~is_connected'
               /\ reconnect_calls' = reconnect_calls + 1
               /\ UNCHANGED disp_vars]_vars

\* C22 witness: after a disconnect event of a connected client, the main
\* loop is at in_queue.get() with a message queued, and can take it.
C22_Witness ==
    /\ ~is_connected
    /\ reconnect_calls = 1
    /\ last_op.op = "disconnect" /\ last_op.connected
    /\ hm_pc = "get"
    /\ in_queue.items # << >>
    /\ Head(in_queue.items) # StopItem
    /\ ENABLED TakeMessage


\* C23: for a message whose topic matches no subscribed type,
\* on_raw_message is called exactly once (the call the main loop wraps in
\* create_task), on_message_blocking and on_message are not invoked, no
\* handler task exists for it and nothing is published for it.
C23_UnmatchedMessages ==
    /\ \A i \in DOMAIN taken :
          taken[i].class = "unmatched"
             => /\ taken[i].raw = 1
                /\ ~taken[i].blocking /\ ~taken[i].nonblocking
                /\ \A t \in tasks : t.id # taken[i].id
                /\ last_publish.id # taken[i].id
    /\ (taken # << >> /\ taken[Len(taken)].class = "unmatched"
         /\ mqtt_message.id = taken[Len(taken)].id)
           => cur = NoCur

\* C23 witness: an unmatched message was taken and dropped, and the loop
\* went on to dispatch the next message and publish for it.
C23_Witness ==
    /\ Len(taken) = 2
    /\ taken[1].class = "unmatched" /\ taken[1].raw = 1
    /\ taken[2].blocking
    /\ last_publish.id = taken[2].id


(***************************************************************************)
(* Properties of the dispatch of binary messages (SpecBinary).             *)
(***************************************************************************)
\* C24: the message the main loop took last, on the topic of a subscribed
\* binary type, is dispatched whatever its payload bytes are, unless the
\* client's site filter rejects the site of its topic: the handler gets an
\* instance of that type holding the payload bytes alone, site_id is the
\* third topic level for AudioFrame and None for IntentGraph, and
\* session_id is None.
C24_BinaryDispatch ==
    (taken # << >> /\ mqtt_message.id = taken[Len(taken)].id) =>
        \A mt \in {b \in subscribed_types :
                     IsBinaryPayload(b) /\ IsTopic(b, mqtt_message.topic)} :
            LET s == IF mt = "AudioFrame" THEN <<mqtt_message.topic[3]>>
                     ELSE None
            IN  (site_ids = {} \/ s = None \/ s \in site_ids)
                   => /\ taken[Len(taken)].blocking
                      /\ cur.id = mqtt_message.id
                      /\ cur.message = [type |-> mt, site_id |-> None,
                                        session_id |-> None,
                                        body |-> mqtt_message.payload]
                      /\ cur.site_id = s
                      /\ cur.session_id = None

\* C24 witness: a client filtering on site kitchen has passed an audio
\* frame whose bytes are not JSON to on_message_blocking and then to
\* on_message, with site_id kitchen.
C24_Witness ==
    /\ site_ids = {Str("kitchen")}
    /\ taken # << >>
    /\ taken[Len(taken)].blocking /\ taken[Len(taken)].nonblocking
    /\ cur.handler = "on_message"
    /\ cur.message.type = "AudioFrame"
    /\ cur.message.body = Bytes
    /\ cur.site_id = Str("kitchen")


(***************************************************************************)
(* Claims about JSON payloads, checked under SpecJson.                     *)
(***************************************************************************)
\* C26: for every JSON message type and every instance built from valid
\* field values, payload() succeeds, its keys are the camel-case forms of
\* the declared field names, and from_dict of the parsed payload returns an
\* instance equal to the original.
C26_JsonRoundTrip ==
    /\ js_pc \in {"encoded", "decoded"} =>
          /\ ~js_payload.raised
          /\ {js_payload.value.pairs[i].k :
                 i \in DOMAIN js_payload.value.pairs}
                = {CamelCase(n) : n \in FieldNames(js_type)}
    /\ js_pc = "decoded" =>
          /\ ~js_out.raised
          /\ js_out.value = js_instance

\* C27: decoding an inbound payload for NluQuery does not fail because of
\* keys the schema does not declare (it fails only if it fails without
\* them); every declared key present in the payload gives its field the
\* value it carries, and every optional field whose key is absent takes its
\* declared default.
C27_TolerantDecode ==
    js_pc = "parsed" =>
       LET pairs == js_payload.value.pairs
           at(n) == {i \in DOMAIN pairs : pairs[i].k = CamelCase(n)}
           declared == SelectSeq(pairs,
                          LAMBDA p : \E n \in FieldNames(js_type) :
                                        p.k = CamelCase(n))
       IN  /\ js_out.raised => FromDict(js_type, JObj(declared)).raised
           /\ ~js_out.raised =>
                 \A n \in FieldNames(js_type) :
                    IF at(n) # {}
                    THEN js_out.value.kw[n] =
                            DecodeValue(FieldOf(js_type, n).type,
                                        pairs[MaxOf(at(n))].v)
                    ELSE js_out.value.kw[n] = FieldOf(js_type, n).default

(***************************************************************************)
(* Claims about the two racing threads, checked under SpecRace.            *)
(***************************************************************************)
\* C29: every step that changes the subscription registry or the site-id
\* filter is taken on the dispatch loop's thread; neither a subscribe_topics
\* call made from another thread nor mqtt_on_connect on the network thread
\* writes them.
C29_SingleWriter ==
    [][<<subscribed_types, subscribed_topics, pending_mqtt_topics,
         all_mqtt_topics, site_ids>>'
          # <<subscribed_types, subscribed_topics, pending_mqtt_topics,
              all_mqtt_topics, site_ids>>
            => writer' = "loop"]_vars

\* C30: once subscribe_topics on the caller's thread and mqtt_on_connect on
\* the network thread have both finished, in whatever order their
\* statements ran, every topic of all_mqtt_topics and of the caller's
\* arguments has been passed to mqtt_client.subscribe at least once since
\* the connect event, pending_mqtt_topics is empty and subscribed_topics is
\* the set of topics passed since the connect event.  The caller has
\* finished when subscribe_topics has returned or raised.
C30_SubscribeRacesReconnect ==
    (ca_pc \in {"done", "raised"} /\ nw_pc = "done") =>
       /\ \A t \in all_mqtt_topics \cup Range(ca_topics) :
             CopiesIn(t, sub_calls) >= 1
       /\ pending_mqtt_topics = {}
       /\ subscribed_topics = BagToSet(sub_calls)

=============================================================================
